---- MODULE Spec2Model ----
(***************************************************************************)
(* A model of the relay engine of bridge-discord-bot: the links, messages  *)
(* and authors tables (internal/repository), the process-local             *)
(* recentDelCache, and the event and slash-command handlers of             *)
(* EventHandler (internal/handler).  The platform (existing messages and   *)
(* the delete notifications it emits) is the environment.                  *)
(***************************************************************************)
EXTENDS Integers, Sequences, FiniteSets, TLC

VARIABLES
    links,          \* table links: rows [key, ch, note], primary key (key, ch)
    messages,       \* table messages: committed rows [oc, om, hc, hm]
    authors,        \* table authors: committed rows <<username, id>>
    recentDelCache, \* sync.Map used as a set of message ids
    platform,       \* messages that currently exist on the platform
    pendingDel,     \* delete notifications emitted and not yet handled
    delivered,      \* ids whose create notification was handled at least once
    redelivered,    \* ids whose create notification was handled a second time
    userDeletes,    \* number of messages deleted by users
    nextId,         \* next snowflake the platform assigns to a message
    procs           \* handler invocations: position and locals of each

vars == <<links, messages, authors, recentDelCache, platform, pendingDel,
          delivered, redelivered, userDeletes, nextId, procs>>

\* ---------------------------------------------------------------- bounds
MaxLinkRows == 4          \* rows the links table may hold
MaxIds == 3               \* message ids the platform hands out
MaxUserDeletes == 1       \* messages deleted by users
MaxRedeliveries == 1      \* create notifications delivered a second time

AuthorInputs == {[name |-> "alice", id |-> 7]}

\* ------------------------------------------------------------- helpers
\* hex.EncodeToString(sha256.Sum256(key)): injective and without fixed point
\* on the keys used here; a digest is never one of the user's labels.
Sha256Hex(s) ==
    CASE s = "k1" -> "d1"
      [] s = "k2" -> "d2"
      [] s = "d1" -> "e1"
      [] s = "d2" -> "e2"
      [] OTHER -> "e0"

\* The orders in which a query without ORDER BY may return the rows S.
Orderings(S) ==
    {f \in [1..Cardinality(S) -> S] : \A i, j \in 1..Cardinality(S) : i # j => f[i] # f[j]}

Count(seq, x) == Cardinality({i \in DOMAIN seq : seq[i] = x})

\* ------------------------------------------------------------ link store
\* The insert against a table whose primary key also covers the note.
BuildInsertLinkQueryKeyedOnNote(tbl, key, ch, note) ==
    tbl \cup {[key |-> key, ch |-> ch, note |-> note]}

\* INSERT OR IGNORE INTO links: the primary key (key, ch) decides.
BuildInsertLinkQuery(tbl, key, ch, note) ==
    IF \E r \in tbl : r.key = key /\ r.ch = ch
    THEN tbl
    ELSE tbl \cup {[key |-> key, ch |-> ch, note |-> note]}

\* DELETE FROM links WHERE virtual_channel_key = key AND channel_id = ch
BuildDeleteLinkQuery(tbl, key, ch) ==
    {r \in tbl : ~(r.key = key /\ r.ch = ch)}

\* DELETE FROM links, the WHERE clause lost.
BuildDeleteAllLinksQueryNoWhere(tbl, ch) == {}

\* DELETE FROM links WHERE channel_id = ch
BuildDeleteAllLinksQuery(tbl, ch) ==
    {r \in tbl : r.ch # ch}

\* SELECT virtual_channel_key, note FROM links WHERE channel_id = ch
BuildSelectVirtualChannelKeyQuery(tbl, ch) ==
    {r \in tbl : r.ch = ch}

\* The query without its channel_id <> c condition.
RelatedRowsWithSelf(tbl, c) ==
    LET sub == {r.key : r \in {q \in tbl : q.ch = c}}
    IN  {r \in tbl : r.key \in sub}

\* The rows selected by LoadRelatedChannels' query:
\* SELECT channel_id FROM links WHERE virtual_channel_key IN
\*   (SELECT virtual_channel_key FROM links WHERE channel_id = c)
\*   AND channel_id <> c
RelatedRows(tbl, c) ==
    LET sub == {r.key : r \in {q \in tbl : q.ch = c}}
    IN  {r \in tbl : r.key \in sub /\ r.ch # c}

\* The targets taken from where messages are as well as from the links
\* table: the related channels and every other channel that holds a message.
LoadRelatedChannelsByMessages(tbl, c) ==
    Orderings({r.ch : r \in RelatedRows(tbl, c)} \cup ({m.ch : m \in platform} \ {c}))

\* The slices LoadRelatedChannels may return: one element per selected row.
LoadRelatedChannels(tbl, c) ==
    {[i \in DOMAIN f |-> f[i].ch] : f \in Orderings(RelatedRows(tbl, c))}

\* The channels other than c sharing at least one group with c.
SharesGroup(tbl, c, d) ==
    d # c /\ \E r, q \in tbl : r.key = q.key /\ r.ch = c /\ q.ch = d

\* ----------------------------------------------------- correlation store
\* The lookup of the delete and update handlers done in both directions, as
\* LoadDirelatedMessageID does it.
LoadRelatedMessageIDEitherWay(tbl, target, ref) ==
    {r.om : r \in {q \in tbl : q.oc = target /\ q.hm = ref}}
        \cup {r.hm : r \in {q \in tbl : q.hc = target /\ q.om = ref}}

\* SELECT hook_message_id FROM messages WHERE hook_channel_id = target AND
\* original_message_id = ref.  QueryRow scans the first row: any element of
\* the result; the empty set is sql.ErrNoRows.
LoadRelatedMessageID(tbl, target, ref) ==
    {r.hm : r \in {q \in tbl : q.hc = target /\ q.om = ref}}

\* The UNION of
\*   SELECT original_message_id ... WHERE original_channel_id = target AND hook_message_id = ref
\*   SELECT hook_message_id     ... WHERE hook_channel_id = target AND original_message_id = ref
LoadDirelatedMessageID(tbl, target, ref) ==
    {r.om : r \in {q \in tbl : q.oc = target /\ q.hm = ref}}
        \cup {r.hm : r \in {q \in tbl : q.hc = target /\ q.om = ref}}

\* INSERT OR IGNORE INTO messages: the primary key is the whole row.
SaveMessageMapping(tbl, oc, om, hc, hm) ==
    tbl \cup {[oc |-> oc, om |-> om, hc |-> hc, hm |-> hm]}

\* INSERT OR IGNORE INTO authors: the primary key is (username, id).
SaveAuthorMapping(tbl, name, id) ==
    tbl \cup {<<name, id>>}

\* SELECT id FROM authors WHERE username = name; empty is sql.ErrNoRows.
LoadAuthorID(tbl, name) ==
    {a[2] : a \in {b \in tbl : b[1] = name}}

\* ------------------------------------------------------------- platform
Exists(id) == \E m \in platform : m.id = id

MessageOf(id) == CHOOSE m \in platform : m.id = id

\* The relayed copies (webhook messages) that exist.
Copies == {m \in platform : m.bot}

\* ------------------------------------------------- handler invocations
NoEvent ==
    [id |-> 0, ch |-> 0, bot |-> FALSE, ref |-> 0, body |-> "", name |-> "",
     uid |-> 0, again |-> FALSE, att |-> <<>>]

IdleProc ==
    [pc |-> "idle", kind |-> "none", ev |-> NoEvent, targets |-> <<>>, i |-> 0,
     out |-> <<>>, txOpen |-> FALSE, txMsgs |-> {}, txAuth |-> {}, cur |-> 0,
     footer |-> <<>>, attach |-> <<>>, end |-> "none"]
\* txMsgs and txAuth are the rows written inside the handler's transaction;
\* they reach the tables when the handler ends "committed", and are rolled
\* back when it ends any other way.  footer and attach are the results of
\* processMessageAttachments: the positions of the attachments whose URL
\* goes into the footer, and of those that were downloaded.

Init ==
    /\ links = {}
    /\ messages = {}
    /\ authors = {}
    /\ recentDelCache = {}
    /\ platform = {}
    /\ pendingDel = {}
    /\ delivered = {}
    /\ redelivered = {}
    /\ userDeletes = 0
    /\ nextId = 1
    /\ procs = [s \in {1} |-> IdleProc]

\* --------------------------------------------------------- environment
\* Users and administrators act between handler invocations: a handler reads
\* the links table once, in its first step, and no step of a message handler
\* depends on what a user does while it runs.
AllIdle == \A s \in DOMAIN procs : procs[s].pc = "idle"

\* A user posts a message in channel c, optionally as a reply to a message
\* of that channel.
UserPost(c, ref, body, a, maxIds) ==
    /\ AllIdle
    /\ nextId <= maxIds
    /\ ref = 0 \/ \E m \in platform : m.id = ref /\ m.ch = c
    /\ platform' = platform \cup
          {[id |-> nextId, ch |-> c, bot |-> FALSE, ref |-> ref, body |-> body,
            hdr |-> 0, name |-> a.name, uid |-> a.id, att |-> <<>>, files |-> <<>>,
            footer |-> <<>>]}
    /\ nextId' = nextId + 1
    /\ UNCHANGED <<links, messages, authors, recentDelCache, pendingDel, delivered,
                   redelivered, userDeletes, procs>>

\* A user posts a message with attachments of the given sizes in channel c.
UserUpload(c, body, a, att, maxIds) ==
    /\ AllIdle
    /\ nextId <= maxIds
    /\ att # <<>>
    /\ platform' = platform \cup
          {[id |-> nextId, ch |-> c, bot |-> FALSE, ref |-> 0, body |-> body,
            hdr |-> 0, name |-> a.name, uid |-> a.id, att |-> att, files |-> <<>>,
            footer |-> <<>>]}
    /\ nextId' = nextId + 1
    /\ UNCHANGED <<links, messages, authors, recentDelCache, pendingDel, delivered,
                   redelivered, userDeletes, procs>>

\* A user deletes an existing message (an original or a relayed copy); the
\* platform emits the delete notification.
UserDelete(m) ==
    /\ AllIdle
    /\ m \in platform
    /\ userDeletes < MaxUserDeletes
    /\ userDeletes' = userDeletes + 1
    /\ platform' = platform \ {m}
    /\ pendingDel' = pendingDel \cup {[id |-> m.id, ch |-> m.ch, bot |-> m.bot]}
    /\ UNCHANGED <<links, messages, authors, recentDelCache, delivered, redelivered,
                   nextId, procs>>

\* The dispatcher is ready for the next event of this invocation slot.
Return(s) ==
    /\ procs[s].pc = "done"
    /\ procs' = [procs EXCEPT ![s] = IdleProc]
    /\ UNCHANGED <<links, messages, authors, recentDelCache, platform, pendingDel,
                   delivered, redelivered, userDeletes, nextId>>

\* ------------------------------------------------------ slash commands
\* Each command handler is one statement against the database followed by
\* one embed.  fault "exec" is a failed h.DB.Exec / h.DB.Query.  The handler
\* ends with the embed it sent: "success" (sendSuccessMessage), "notfound"
\* (sendErrorMessage after zero rows affected) or "error" (sendErrorMessage
\* after the failed statement); cur keeps the statement's sql.Result, the
\* number of rows it changed, and out the embeds
\* it sent through e.CreateMessage.
Replied(command, rowsAffected, reply) ==
    [IdleProc EXCEPT !.pc = "done", !.kind = command, !.cur = rowsAffected,
                     !.out = <<reply>>, !.end = reply]

\* /link: the key is hashed, the row inserted.
onCommandInteractionCreateLink(s, c, k, note, fault) ==
    /\ AllIdle
    /\ fault \in {"none", "exec"}
    /\ LET virtualChannelHash == Sha256Hex(k)
           new == BuildInsertLinkQuery(links, virtualChannelHash, c, note)
       IN  IF fault = "exec"
           THEN /\ links' = links
                /\ procs' = [procs EXCEPT ![s] = Replied("link", 0, "error")]
           ELSE /\ Cardinality(new) <= MaxLinkRows
                /\ links' = new
                /\ procs' = [procs EXCEPT ![s] =
                      Replied("link", Cardinality(new) - Cardinality(links), "success")]
    /\ UNCHANGED <<messages, authors, recentDelCache, platform, pendingDel, delivered,
                   redelivered, userDeletes, nextId>>

\* /unlink without the test of rowsAffected.
onCommandInteractionCreateUnlinkUnchecked(s, c, k, fault) ==
    /\ AllIdle
    /\ fault \in {"none", "exec"}
    /\ LET new == BuildDeleteLinkQuery(links, k, c)
           rowsAffected == Cardinality(links) - Cardinality(new)
       IN  IF fault = "exec"
           THEN /\ links' = links
                /\ procs' = [procs EXCEPT ![s] = Replied("unlink", 0, "error")]
           ELSE /\ links' = new
                /\ procs' = [procs EXCEPT ![s] = Replied("unlink", rowsAffected, "success")]
    /\ UNCHANGED <<messages, authors, recentDelCache, platform, pendingDel, delivered,
                   redelivered, userDeletes, nextId>>

\* /unlink: the key is used as typed.
onCommandInteractionCreateUnlink(s, c, k, fault) ==
    /\ AllIdle
    /\ fault \in {"none", "exec"}
    /\ LET new == BuildDeleteLinkQuery(links, k, c)
           rowsAffected == Cardinality(links) - Cardinality(new)
       IN  IF fault = "exec"
           THEN /\ links' = links
                /\ procs' = [procs EXCEPT ![s] = Replied("unlink", 0, "error")]
           ELSE /\ links' = new
                /\ procs' = [procs EXCEPT ![s] =
                      Replied("unlink", rowsAffected,
                              IF rowsAffected = 0 THEN "notfound" ELSE "success")]
    /\ UNCHANGED <<messages, authors, recentDelCache, platform, pendingDel, delivered,
                   redelivered, userDeletes, nextId>>

\* /unlink_all returning without an embed when no row was deleted.
onCommandInteractionCreateUnlinkAllSilent(s, c, fault) ==
    /\ AllIdle
    /\ fault \in {"none", "exec"}
    /\ LET new == BuildDeleteAllLinksQuery(links, c)
           rowsAffected == Cardinality(links) - Cardinality(new)
       IN  IF fault = "exec"
           THEN /\ links' = links
                /\ procs' = [procs EXCEPT ![s] = Replied("unlink_all", 0, "error")]
           ELSE /\ links' = new
                /\ procs' = [procs EXCEPT ![s] =
                      IF rowsAffected = 0
                      THEN [Replied("unlink_all", 0, "none") EXCEPT !.out = <<>>]
                      ELSE Replied("unlink_all", rowsAffected, "success")]
    /\ UNCHANGED <<messages, authors, recentDelCache, platform, pendingDel, delivered,
                   redelivered, userDeletes, nextId>>

\* /unlink_all
onCommandInteractionCreateUnlinkAll(s, c, fault) ==
    /\ AllIdle
    /\ fault \in {"none", "exec"}
    /\ LET new == BuildDeleteAllLinksQuery(links, c)
           rowsAffected == Cardinality(links) - Cardinality(new)
       IN  IF fault = "exec"
           THEN /\ links' = links
                /\ procs' = [procs EXCEPT ![s] = Replied("unlink_all", 0, "error")]
           ELSE /\ links' = new
                /\ procs' = [procs EXCEPT ![s] =
                      Replied("unlink_all", rowsAffected,
                              IF rowsAffected = 0 THEN "notfound" ELSE "success")]
    /\ UNCHANGED <<messages, authors, recentDelCache, platform, pendingDel, delivered,
                   redelivered, userDeletes, nextId>>

\* /list that also drops the rows it has listed.
onCommandInteractionCreateListPurging(s, c, fault) ==
    /\ AllIdle
    /\ fault \in {"none", "exec"}
    /\ procs' = [procs EXCEPT ![s] =
          Replied("list", Cardinality(BuildSelectVirtualChannelKeyQuery(links, c)),
                  IF fault = "exec" THEN "error" ELSE "success")]
    /\ links' = IF fault = "exec" THEN links ELSE {r \in links : r.ch # c}
    /\ UNCHANGED <<messages, authors, recentDelCache, platform, pendingDel,
                   delivered, redelivered, userDeletes, nextId>>

\* /list: reads the rows of the channel; an empty and a non-empty listing
\* are both sent with sendSuccessMessage.
onCommandInteractionCreateList(s, c, fault) ==
    /\ AllIdle
    /\ fault \in {"none", "exec"}
    /\ procs' = [procs EXCEPT ![s] =
          Replied("list", Cardinality(BuildSelectVirtualChannelKeyQuery(links, c)),
                  IF fault = "exec" THEN "error" ELSE "success")]
    /\ UNCHANGED <<links, messages, authors, recentDelCache, platform, pendingDel,
                   delivered, redelivered, userDeletes, nextId>>

\* ------------------------------------------------------ message handlers
\* fault names the call of the step that returns an error: "load"
\* (LoadRelatedChannels), "begin" (BeginTx), "author" (SaveAuthorMapping),
\* "webhook" (loadOrCreateWebhook), "getmsg" (Rest.GetMessage), "send"
\* (CreateMessage), "save" (SaveMessageMapping), "commit" (tx.Commit),
\* "delete" (DeleteMessage); "none" when every call succeeds.
EndProc(p, end) == [p EXCEPT !.pc = "done", !.end = end, !.txOpen = FALSE]

\* The position after iteration i of a per-target loop.
Advance(p, outcome, after) ==
    [p EXCEPT !.out = Append(p.out, outcome), !.i = p.i + 1, !.cur = 0,
              !.pc = IF p.i = Len(p.targets) THEN after ELSE p.pc]

\* tryWriteReferenceHeader without the lookups: the header points at the
\* referenced message itself.
tryWriteReferenceHeaderUnresolved(target, ref, fault) == {ref}

\* tryWriteReferenceHeader writing the link line as soon as the
\* representative is resolved, before GetMessage and LoadAuthorID.
tryWriteReferenceHeaderPartial(target, ref, fault) ==
    IF ref = 0 THEN {0}
    ELSE IF LoadDirelatedMessageID(messages, target, ref) = {} THEN {0}
    ELSE LoadDirelatedMessageID(messages, target, ref)

\* The related-message ids tryWriteReferenceHeader may put into the header
\* written for the target channel; 0 stands for no header: no reference, or
\* one of the three lookups returned an error and nothing was written.
tryWriteReferenceHeader(target, ref, fault) ==
    IF ref = 0
    THEN {0}
    ELSE LET related == LoadDirelatedMessageID(messages, target, ref)
         IN  IF \/ related = {}
                \/ fault = "getmsg" \/ ~Exists(ref)
                \/ LoadAuthorID(authors, MessageOf(ref).name) = {}
             THEN {0}
             ELSE related

\* The empty-content check with the downloaded attachments left out:
\* content.Len() == 0 alone.
UnsupportedContent(p, hdr) ==
    hdr = 0 /\ p.ev.body = "" /\ p.footer = <<>>

\* content.Len() == 0 && len(contentCommonFileAttach) == 0, the "unsupported
\* message" of the create handler: no header was written, the message has no
\* text, no URL was written to the footer and no attachment was downloaded.
Unsupported(p, hdr) ==
    hdr = 0 /\ p.ev.body = "" /\ p.footer = <<>> /\ p.attach = <<>>

\* h.Cfg.MaxAttachmentSize, in the units of the attachment sizes below.
MaxAttachmentSize == 8

\* processMessageAttachments with the size test attach.Size >=
\* cfg.MaxAttachmentSize: an attachment of exactly the limit is a URL line.
RECURSIVE processMessageAttachmentsInclusive(_, _, _, _)
processMessageAttachmentsInclusive(att, k, footer, onlyFooter) ==
    IF k > Len(att)
    THEN [cur |-> k, footer |-> footer]
    ELSE IF att[k] >= MaxAttachmentSize
    THEN processMessageAttachmentsInclusive(att, k + 1, Append(footer, k), onlyFooter)
    ELSE IF onlyFooter
    THEN processMessageAttachmentsInclusive(att, k + 1, footer, onlyFooter)
    ELSE [cur |-> k, footer |-> footer]

\* The loop of processMessageAttachments from attachment k on, up to its
\* next http.Get: the footer (the positions of the attachments above the
\* size limit, whose URL is written) and the position of the attachment to
\* download, which lies beyond the last attachment when the loop has ended.
\* With onlyFooter nothing is downloaded.
RECURSIVE processMessageAttachments(_, _, _, _)
processMessageAttachments(att, k, footer, onlyFooter) ==
    IF k > Len(att)
    THEN [cur |-> k, footer |-> footer]
    ELSE IF att[k] > MaxAttachmentSize
    THEN processMessageAttachments(att, k + 1, Append(footer, k), onlyFooter)
    ELSE IF onlyFooter
    THEN processMessageAttachments(att, k + 1, footer, onlyFooter)
    ELSE [cur |-> k, footer |-> footer]

\* The create handler after attachment k has been dealt with: waiting in the
\* next http.Get, or past processMessageAttachments.
AfterAttachment(p, k) ==
    LET r == processMessageAttachments(p.ev.att, k + 1, p.footer, FALSE)
    IN  IF r.cur <= Len(p.ev.att)
        THEN [p EXCEPT !.pc = "create_download", !.cur = r.cur, !.footer = r.footer]
        ELSE [p EXCEPT !.pc = IF p.targets = <<>> THEN "create_commit" ELSE "create_loop",
                       !.cur = 0, !.footer = r.footer]

\* OnGuildMessageCreate without the Author.Bot guard.
OnGuildMessageCreateUnguarded(s, m, fault, maxIds) ==
    /\ procs[s].pc = "idle"
    /\ m \in platform
    /\ fault \in {"none", "load", "begin", "author"}
    /\ LET ev == [NoEvent EXCEPT !.id = m.id, !.ch = m.ch, !.bot = m.bot, !.ref = m.ref,
                                 !.body = m.body, !.name = m.name, !.uid = m.uid,
                                 !.again = (m.id \in delivered), !.att = m.att]
           p == [IdleProc EXCEPT !.kind = "create", !.ev = ev]
       IN  /\ m.id \in delivered =>
                m.id \notin redelivered /\ Cardinality(redelivered) < MaxRedeliveries
           /\ delivered' = delivered \cup {m.id}
           /\ redelivered' = redelivered \cup ({m.id} \cap delivered)
           /\ IF fault = "load"
              THEN procs' = [procs EXCEPT ![s] = EndProc(p, "load_failed")]
              ELSE \E targetChannels \in LoadRelatedChannels(links, m.ch) :
                   /\ nextId + Len(targetChannels) - 1 <= maxIds
                   /\ IF fault = "begin"
                      THEN procs' = [procs EXCEPT ![s] = EndProc(p, "begin_failed")]
                      ELSE procs' = [procs EXCEPT ![s] =
                              AfterAttachment(
                                 [p EXCEPT !.targets = targetChannels, !.i = 1,
                                           !.txOpen = TRUE,
                                           !.txAuth = IF fault = "author" THEN {}
                                               ELSE SaveAuthorMapping({}, m.name, m.uid)],
                                 0)]
    /\ UNCHANGED <<links, messages, authors, recentDelCache, platform, pendingDel,
                   userDeletes, nextId>>

\* OnGuildMessageCreate up to the first download or, when nothing is to be
\* downloaded, up to the per-target loop: the Author.Bot guard,
\* LoadRelatedChannels, BeginTx, SaveAuthorMapping and the start of
\* processMessageAttachments.
OnGuildMessageCreate(s, m, fault, maxIds) ==
    /\ procs[s].pc = "idle"
    /\ m \in platform
    /\ fault \in {"none", "load", "begin", "author"}
    /\ LET ev == [NoEvent EXCEPT !.id = m.id, !.ch = m.ch, !.bot = m.bot, !.ref = m.ref,
                                 !.body = m.body, !.name = m.name, !.uid = m.uid,
                                 !.again = (m.id \in delivered), !.att = m.att]
           p == [IdleProc EXCEPT !.kind = "create", !.ev = ev]
       IN  IF m.bot
           THEN /\ fault = "none"
                /\ procs' = [procs EXCEPT ![s] = EndProc(p, "ignored")]
                /\ UNCHANGED <<delivered, redelivered>>
           ELSE /\ m.id \in delivered =>
                     m.id \notin redelivered /\ Cardinality(redelivered) < MaxRedeliveries
                /\ delivered' = delivered \cup {m.id}
                /\ redelivered' = redelivered \cup ({m.id} \cap delivered)
                /\ IF fault = "load"
                   THEN procs' = [procs EXCEPT ![s] = EndProc(p, "load_failed")]
                   ELSE \E targetChannels \in LoadRelatedChannels(links, m.ch) :
                        /\ nextId + Len(targetChannels) - 1 <= maxIds
                        /\ IF fault = "begin"
                           THEN procs' = [procs EXCEPT ![s] = EndProc(p, "begin_failed")]
                           ELSE procs' = [procs EXCEPT ![s] =
                                   AfterAttachment(
                                      [p EXCEPT !.targets = targetChannels, !.i = 1,
                                                !.txOpen = TRUE,
                                                !.txAuth = IF fault = "author" THEN {}
                                                    ELSE SaveAuthorMapping({}, m.name, m.uid)],
                                      0)]
    /\ UNCHANGED <<links, messages, authors, recentDelCache, platform, pendingDel,
                   userDeletes, nextId>>

\* http.Get and io.ReadAll for one attachment return: the attachment is
\* kept for the AddFile loop, or, with fault "download", dropped with a log
\* line.  contentCommonFileAttach holds the index as a uint8.
OnGuildMessageCreateDownload(s, fault) ==
    LET p == procs[s]
    IN  /\ p.pc = "create_download"
        /\ fault \in {"none", "download"}
        /\ procs' = [procs EXCEPT ![s] =
              AfterAttachment(
                 [p EXCEPT !.attach = IF fault = "download" THEN p.attach
                                      ELSE Append(p.attach, ((p.cur - 1) % 256) + 1)],
                 p.cur)]
        /\ UNCHANGED <<links, messages, authors, recentDelCache, platform, pendingDel,
                       delivered, redelivered, userDeletes, nextId>>

\* One iteration of the per-target loop of OnGuildMessageCreate with
\* SaveMessageMapping run on the database handle instead of the transaction.
OnGuildMessageCreateTargetAutocommit(s, fault) ==
    LET p == procs[s]
        targetChannelID == p.targets[p.i]
    IN  /\ p.pc = "create_loop"
        /\ fault \in {"none", "webhook", "getmsg", "send", "save"}
        /\ IF fault = "webhook"
           THEN \* loadOrCreateWebhook failed: continue
                /\ procs' = [procs EXCEPT ![s] = Advance(p, "webhook_failed", "create_commit")]
                /\ UNCHANGED <<platform, nextId, messages>>
           ELSE \E hdr \in tryWriteReferenceHeader(targetChannelID, p.ev.ref, fault) :
                IF Unsupported(p, hdr)
                THEN \* content.Len() == 0 and nothing attached: continue
                     /\ fault \in {"none", "getmsg"}
                     /\ procs' = [procs EXCEPT ![s] = Advance(p, "skipped", "create_commit")]
                     /\ UNCHANGED <<platform, nextId, messages>>
                ELSE IF fault = "send"
                THEN \* CreateMessage failed: webhookMessage is nil, and reading
                     \* webhookMessage.ChannelID panics; the deferred Rollback runs.
                     /\ procs' = [procs EXCEPT ![s] =
                           EndProc([p EXCEPT !.out = Append(p.out, "send_failed")],
                                   "panicked")]
                     /\ UNCHANGED <<platform, nextId, messages>>
                ELSE \* CreateMessage succeeded
                     /\ platform' = platform \cup
                           {[id |-> nextId, ch |-> targetChannelID, bot |-> TRUE, ref |-> 0,
                             body |-> p.ev.body, hdr |-> hdr, name |-> p.ev.name, uid |-> 0,
                             att |-> <<>>, files |-> p.attach, footer |-> p.footer]}
                     /\ nextId' = nextId + 1
                     /\ IF fault = "save"
                        THEN \* SaveMessageMapping failed: logged
                             /\ procs' = [procs EXCEPT ![s] =
                                   Advance(p, "sent_unsaved", "create_commit")]
                             /\ UNCHANGED messages
                        ELSE /\ procs' = [procs EXCEPT ![s] =
                                   Advance([p EXCEPT !.txMsgs = SaveMessageMapping(p.txMsgs,
                                               p.ev.ch, p.ev.id, targetChannelID, nextId)],
                                           "sent", "create_commit")]
                             /\ messages' = SaveMessageMapping(messages,
                                   p.ev.ch, p.ev.id, targetChannelID, nextId)
        /\ UNCHANGED <<links, authors, recentDelCache, pendingDel, delivered,
                       redelivered, userDeletes>>

\* One iteration of the per-target loop of OnGuildMessageCreate.
OnGuildMessageCreateTarget(s, fault) ==
    LET p == procs[s]
        targetChannelID == p.targets[p.i]
    IN  /\ p.pc = "create_loop"
        /\ fault \in {"none", "webhook", "getmsg", "send", "save"}
        /\ IF fault = "webhook"
           THEN \* loadOrCreateWebhook failed: continue
                /\ procs' = [procs EXCEPT ![s] = Advance(p, "webhook_failed", "create_commit")]
                /\ UNCHANGED <<platform, nextId>>
           ELSE \E hdr \in tryWriteReferenceHeader(targetChannelID, p.ev.ref, fault) :
                IF Unsupported(p, hdr)
                THEN \* content.Len() == 0 and nothing attached: continue
                     /\ fault \in {"none", "getmsg"}
                     /\ procs' = [procs EXCEPT ![s] = Advance(p, "skipped", "create_commit")]
                     /\ UNCHANGED <<platform, nextId>>
                ELSE IF fault = "send"
                THEN \* CreateMessage failed: webhookMessage is nil, and reading
                     \* webhookMessage.ChannelID panics; the deferred Rollback runs.
                     /\ procs' = [procs EXCEPT ![s] =
                           EndProc([p EXCEPT !.out = Append(p.out, "send_failed")],
                                   "panicked")]
                     /\ UNCHANGED <<platform, nextId>>
                ELSE \* CreateMessage succeeded
                     /\ platform' = platform \cup
                           {[id |-> nextId, ch |-> targetChannelID, bot |-> TRUE, ref |-> 0,
                             body |-> p.ev.body, hdr |-> hdr, name |-> p.ev.name, uid |-> 0,
                             att |-> <<>>, files |-> p.attach, footer |-> p.footer]}
                     /\ nextId' = nextId + 1
                     /\ IF fault = "save"
                        THEN \* SaveMessageMapping failed: logged
                             procs' = [procs EXCEPT ![s] =
                                Advance(p, "sent_unsaved", "create_commit")]
                        ELSE procs' = [procs EXCEPT ![s] =
                                Advance([p EXCEPT !.txMsgs = SaveMessageMapping(p.txMsgs,
                                            p.ev.ch, p.ev.id, targetChannelID, nextId)],
                                        "sent", "create_commit")]
        /\ UNCHANGED <<links, messages, authors, recentDelCache, pendingDel, delivered,
                       redelivered, userDeletes>>

\* tx.Commit() at the end of OnGuildMessageCreate.
OnGuildMessageCreateCommit(s, fault) ==
    LET p == procs[s]
    IN  /\ p.pc = "create_commit"
        /\ fault \in {"none", "commit"}
        /\ IF fault = "commit"
           THEN /\ UNCHANGED <<messages, authors>>
                /\ procs' = [procs EXCEPT ![s] = EndProc(p, "commit_failed")]
           ELSE /\ messages' = messages \cup p.txMsgs
                /\ authors' = authors \cup p.txAuth
                /\ procs' = [procs EXCEPT ![s] = EndProc(p, "committed")]
        /\ UNCHANGED <<links, recentDelCache, platform, pendingDel, delivered, redelivered,
                       userDeletes, nextId>>

\* OnGuildMessageDelete with recentDelCache.Load in place of LoadAndDelete:
\* the entry is observed and left in the map.
OnGuildMessageDeleteLoadOnly(s, n, bot, fault) ==
    /\ procs[s].pc = "idle"
    /\ n \in pendingDel
    /\ bot => n.bot
    /\ fault \in {"none", "load"}
    /\ pendingDel' = pendingDel \ {n}
    /\ LET ev == [NoEvent EXCEPT !.id = n.id, !.ch = n.ch, !.bot = bot]
           p == [IdleProc EXCEPT !.kind = "delete", !.ev = ev]
       IN  IF bot
           THEN fault = "none" /\ procs' = [procs EXCEPT ![s] = EndProc(p, "ignored")]
           ELSE IF n.id \in recentDelCache
           THEN fault = "none" /\ procs' = [procs EXCEPT ![s] = EndProc(p, "self_deleted")]
           ELSE IF fault = "load"
           THEN procs' = [procs EXCEPT ![s] = EndProc(p, "load_failed")]
           ELSE \E targetChannels \in LoadRelatedChannels(links, n.ch) :
                procs' = [procs EXCEPT ![s] =
                   IF targetChannels = <<>>
                   THEN EndProc(p, "returned")
                   ELSE [p EXCEPT !.pc = "delete_loop",
                                  !.targets = targetChannels, !.i = 1]]
    /\ UNCHANGED <<links, messages, authors, recentDelCache, platform, delivered,
                   redelivered, userDeletes, nextId>>

\* OnGuildMessageDelete up to the per-target loop: the Author.Bot guard (the
\* deleted message comes from the client's cache, so the notification of a
\* relayed copy may or may not carry its author), then
\* recentDelCache.LoadAndDelete, then LoadRelatedChannels.
OnGuildMessageDelete(s, n, bot, fault) ==
    /\ procs[s].pc = "idle"
    /\ n \in pendingDel
    /\ bot => n.bot
    /\ fault \in {"none", "load"}
    /\ pendingDel' = pendingDel \ {n}
    /\ LET ev == [NoEvent EXCEPT !.id = n.id, !.ch = n.ch, !.bot = bot]
           p == [IdleProc EXCEPT !.kind = "delete", !.ev = ev]
       IN  IF bot
           THEN /\ fault = "none"
                /\ procs' = [procs EXCEPT ![s] = EndProc(p, "ignored")]
                /\ UNCHANGED recentDelCache
           ELSE IF n.id \in recentDelCache
           THEN /\ fault = "none"
                /\ recentDelCache' = recentDelCache \ {n.id}
                /\ procs' = [procs EXCEPT ![s] = EndProc(p, "self_deleted")]
           ELSE /\ UNCHANGED recentDelCache
                /\ IF fault = "load"
                   THEN procs' = [procs EXCEPT ![s] = EndProc(p, "load_failed")]
                   ELSE \E targetChannels \in LoadRelatedChannels(links, n.ch) :
                        procs' = [procs EXCEPT ![s] =
                           IF targetChannels = <<>>
                           THEN EndProc(p, "returned")
                           ELSE [p EXCEPT !.pc = "delete_loop",
                                          !.targets = targetChannels, !.i = 1]]
    /\ UNCHANGED <<links, messages, authors, platform, delivered, redelivered,
                   userDeletes, nextId>>

\* The end of the per-target loop of OnGuildMessageDelete is its return.
Returned(p) == IF p.pc = "done" THEN [p EXCEPT !.end = "returned"] ELSE p

\* One iteration of the per-target loop of OnGuildMessageDelete, up to and
\* including forwarderClient.DeleteMessage.
OnGuildMessageDeleteTarget(s, fault) ==
    LET p == procs[s]
        targetChannelID == p.targets[p.i]
        related == LoadRelatedMessageID(messages, targetChannelID, p.ev.id)
    IN  /\ p.pc = "delete_loop"
        /\ fault \in {"none", "webhook", "delete"}
        /\ IF related = {}
           THEN \* ErrNoRows: continue
                /\ fault = "none"
                /\ procs' = [procs EXCEPT ![s] = Returned(Advance(p, "no_copy", "done"))]
                /\ UNCHANGED <<platform, pendingDel>>
           ELSE IF fault = "webhook"
           THEN \* loadOrCreateWebhook failed: continue
                /\ procs' = [procs EXCEPT ![s] =
                      Returned(Advance(p, "webhook_failed", "done"))]
                /\ UNCHANGED <<platform, pendingDel>>
           ELSE \E relatedMessageID \in related :
                IF fault = "delete" \/ ~Exists(relatedMessageID)
                THEN \* DeleteMessage failed (the call failed, or the copy is gone)
                     /\ procs' = [procs EXCEPT ![s] =
                           Returned(Advance(p, "delete_failed", "done"))]
                     /\ UNCHANGED <<platform, pendingDel>>
                ELSE \* DeleteMessage succeeded: the platform emits the notification
                     /\ platform' = platform \ {MessageOf(relatedMessageID)}
                     /\ pendingDel' = pendingDel \cup
                           {[id |-> relatedMessageID, ch |-> MessageOf(relatedMessageID).ch,
                             bot |-> TRUE]}
                     /\ procs' = [procs EXCEPT ![s] =
                           [p EXCEPT !.pc = "delete_store", !.cur = relatedMessageID]]
        /\ UNCHANGED <<links, messages, authors, recentDelCache, delivered, redelivered,
                       userDeletes, nextId>>

\* OnGuildMessageDeleteStore without the Store.
OnGuildMessageDeleteStoreSkipped(s) ==
    LET p == procs[s]
    IN  /\ p.pc = "delete_store"
        /\ procs' = [procs EXCEPT ![s] =
              Returned(Advance([p EXCEPT !.pc = "delete_loop"], "deleted", "done"))]
        /\ UNCHANGED <<links, messages, authors, recentDelCache, platform, pendingDel,
                       delivered, redelivered, userDeletes, nextId>>

\* OnGuildMessageDeleteStore followed by a DELETE of the copy's row.
OnGuildMessageDeleteStorePruning(s) ==
    LET p == procs[s]
    IN  /\ p.pc = "delete_store"
        /\ recentDelCache' = recentDelCache \cup {p.cur}
        /\ messages' = {r \in messages : r.hm # p.cur}
        /\ procs' = [procs EXCEPT ![s] =
              Returned(Advance([p EXCEPT !.pc = "delete_loop"], "deleted", "done"))]
        /\ UNCHANGED <<links, authors, platform, pendingDel, delivered,
                       redelivered, userDeletes, nextId>>

\* h.recentDelCache.Store(relatedMessageID, nil) after a successful delete.
OnGuildMessageDeleteStore(s) ==
    LET p == procs[s]
    IN  /\ p.pc = "delete_store"
        /\ recentDelCache' = recentDelCache \cup {p.cur}
        /\ procs' = [procs EXCEPT ![s] =
              Returned(Advance([p EXCEPT !.pc = "delete_loop"], "deleted", "done"))]
        /\ UNCHANGED <<links, messages, authors, platform, pendingDel, delivered,
                       redelivered, userDeletes, nextId>>

\* ------------------------------------------------------ message update
\* A user edits the text of one of their messages; the platform emits the
\* update notification, which carries the message as it now is.
UserEdit(m, body) ==
    /\ AllIdle
    /\ m \in platform
    /\ ~m.bot
    /\ body # m.body
    /\ platform' = (platform \ {m}) \cup {[m EXCEPT !.body = body]}
    /\ UNCHANGED <<links, messages, authors, recentDelCache, pendingDel, delivered,
                   redelivered, userDeletes, nextId, procs>>

\* OnGuildMessageUpdate up to the per-target loop: the Author.Bot guard and
\* LoadRelatedChannels.
OnGuildMessageUpdate(s, m, fault) ==
    /\ procs[s].pc = "idle"
    /\ m \in platform
    /\ fault \in {"none", "load"}
    /\ LET ev == [NoEvent EXCEPT !.id = m.id, !.ch = m.ch, !.bot = m.bot, !.ref = m.ref,
                                 !.body = m.body, !.name = m.name, !.uid = m.uid,
                                 !.att = m.att]
           p == [IdleProc EXCEPT !.kind = "update", !.ev = ev]
       IN  IF m.bot
           THEN fault = "none" /\ procs' = [procs EXCEPT ![s] = EndProc(p, "ignored")]
           ELSE IF fault = "load"
           THEN procs' = [procs EXCEPT ![s] = EndProc(p, "load_failed")]
           ELSE \E targetChannels \in LoadRelatedChannels(links, m.ch) :
                procs' = [procs EXCEPT ![s] =
                   IF targetChannels = <<>>
                   THEN EndProc(p, "returned")
                   ELSE [p EXCEPT !.pc = "update_loop",
                                  !.targets = targetChannels, !.i = 1,
                                  !.footer = processMessageAttachments(
                                                m.att, 1, <<>>, TRUE).footer]]
    /\ UNCHANGED <<links, messages, authors, recentDelCache, platform, pendingDel,
                   delivered, redelivered, userDeletes, nextId>>

\* One iteration of the per-target loop of OnGuildMessageUpdate with
\* CreateMessage in place of UpdateMessage.
OnGuildMessageUpdateTargetResend(s, fault) ==
    LET p == procs[s]
        targetChannelID == p.targets[p.i]
    IN  /\ p.pc = "update_loop"
        /\ fault = "none"
        /\ platform' = platform \cup
              {[id |-> nextId, ch |-> targetChannelID, bot |-> TRUE, ref |-> 0,
                body |-> p.ev.body, hdr |-> 0, name |-> p.ev.name, uid |-> 0,
                att |-> <<>>, files |-> <<>>, footer |-> <<>>]}
        /\ nextId' = nextId + 1
        /\ procs' = [procs EXCEPT ![s] = Returned(Advance(p, "edited", "done"))]
        /\ UNCHANGED <<links, messages, authors, recentDelCache, pendingDel, delivered,
                       redelivered, userDeletes>>

\* One iteration of the per-target loop of OnGuildMessageUpdate:
\* LoadRelatedMessageID, loadOrCreateWebhook, the content (reference header,
\* then the message's text) and forwarderClient.UpdateMessage.
OnGuildMessageUpdateTarget(s, fault) ==
    LET p == procs[s]
        targetChannelID == p.targets[p.i]
        related == LoadRelatedMessageID(messages, targetChannelID, p.ev.id)
    IN  /\ p.pc = "update_loop"
        /\ fault \in {"none", "webhook", "getmsg", "edit"}
        /\ IF related = {}
           THEN \* ErrNoRows: continue
                /\ fault = "none"
                /\ procs' = [procs EXCEPT ![s] = Returned(Advance(p, "no_copy", "done"))]
                /\ UNCHANGED platform
           ELSE IF fault = "webhook"
           THEN \* loadOrCreateWebhook failed: continue
                /\ procs' = [procs EXCEPT ![s] =
                      Returned(Advance(p, "webhook_failed", "done"))]
                /\ UNCHANGED platform
           ELSE \E relatedMessageID \in related,
                   hdr \in tryWriteReferenceHeader(targetChannelID, p.ev.ref, fault) :
                IF fault = "edit" \/ ~Exists(relatedMessageID)
                THEN \* UpdateMessage failed (the call failed, or the copy is gone)
                     /\ procs' = [procs EXCEPT ![s] =
                           Returned(Advance(p, "edit_failed", "done"))]
                     /\ UNCHANGED platform
                ELSE \* UpdateMessage succeeded: the copy carries the new content
                     /\ platform' = (platform \ {MessageOf(relatedMessageID)}) \cup
                           {[MessageOf(relatedMessageID) EXCEPT !.body = p.ev.body,
                                                                !.hdr = hdr,
                                                                !.footer = p.footer]}
                     /\ procs' = [procs EXCEPT ![s] =
                           Returned(Advance(p, "edited", "done"))]
        /\ UNCHANGED <<links, messages, authors, recentDelCache, pendingDel, delivered,
                       redelivered, userDeletes, nextId>>

\* ---------------------------------------------------------- specification
Faults ==
    {"none", "exec", "load", "begin", "author", "webhook", "getmsg", "send", "save",
     "commit", "delete", "edit", "download"}

\* The steps of the program and of its environment, with the inputs drawn
\* from in.ch (channels of the commands), in.post (channels users post in),
\* in.keys (labels typed into /link), in.ukeys (labels typed into /unlink),
\* in.notes, in.bodies, in.faults, and at most in.ids message ids.
NextOn(in) ==
    \/ \E c \in in.post, b \in in.bodies, a \in AuthorInputs :
         \E ref \in {0} \cup {m.id : m \in platform} : UserPost(c, ref, b, a, in.ids)
    \/ \E m \in platform : UserDelete(m)
    \/ \E s \in DOMAIN procs : Return(s)
    \/ \E s \in DOMAIN procs, c \in in.ch, k \in in.keys, note \in in.notes, f \in in.faults :
         onCommandInteractionCreateLink(s, c, k, note, f)
    \/ \E s \in DOMAIN procs, c \in in.ch, k \in in.ukeys, f \in in.faults :
         onCommandInteractionCreateUnlink(s, c, k, f)
    \/ \E s \in DOMAIN procs, c \in in.ch, f \in in.faults :
         onCommandInteractionCreateUnlinkAll(s, c, f)
    \/ \E s \in DOMAIN procs, c \in in.ch, f \in in.faults :
         onCommandInteractionCreateList(s, c, f)
    \/ \E s \in DOMAIN procs, f \in in.faults :
         \E m \in platform : OnGuildMessageCreate(s, m, f, in.ids)
    \/ \E s \in DOMAIN procs, f \in in.faults : OnGuildMessageCreateTarget(s, f)
    \/ \E s \in DOMAIN procs, f \in in.faults : OnGuildMessageCreateCommit(s, f)
    \/ \E s \in DOMAIN procs, f \in in.faults :
         \E n \in pendingDel, bot \in BOOLEAN : OnGuildMessageDelete(s, n, bot, f)
    \/ \E s \in DOMAIN procs, f \in in.faults : OnGuildMessageDeleteTarget(s, f)
    \/ \E s \in DOMAIN procs : OnGuildMessageDeleteStore(s)

\* One group, three channels.
OneGroup ==
    [ch |-> {1, 2, 3}, post |-> {1}, keys |-> {"k1"}, ukeys |-> {"d1"},
     notes |-> {""}, bodies |-> {"hi", ""}, faults |-> Faults \ {"author", "exec"},
     ids |-> MaxIds]

Next == NextOn(OneGroup)

Spec == Init /\ [][Next]_vars

\* Two groups, two channels.
TwoGroups ==
    [ch |-> {1, 2}, post |-> {1}, keys |-> {"k1", "k2"}, ukeys |-> {"d1", "d2"},
     notes |-> {""}, bodies |-> {"hi"}, faults |-> Faults \ {"exec"}, ids |-> MaxIds]

NextTwoGroups == NextOn(TwoGroups)

SpecTwoGroups == Init /\ [][NextTwoGroups]_vars

\* ------------------------------------------------- the commands alone
\* The four commands over two labels, their digests, two notes and three
\* channels.
Links ==
    [ch |-> {1, 2, 3}, keys |-> {"k1", "k2"}, ukeys |-> {"k1", "d1", "d2"},
     notes |-> {"", "n"}, faults |-> {"none", "exec"}]

NextLinks ==
    \/ \E s \in DOMAIN procs : Return(s)
    \/ \E s \in DOMAIN procs, c \in Links.ch, k \in Links.keys, note \in Links.notes,
          f \in Links.faults : onCommandInteractionCreateLink(s, c, k, note, f)
    \/ \E s \in DOMAIN procs, c \in Links.ch, k \in Links.ukeys, f \in Links.faults :
         onCommandInteractionCreateUnlink(s, c, k, f)
    \/ \E s \in DOMAIN procs, c \in Links.ch, f \in Links.faults :
         onCommandInteractionCreateUnlinkAll(s, c, f)
    \/ \E s \in DOMAIN procs, c \in Links.ch, f \in Links.faults :
         onCommandInteractionCreateList(s, c, f)

SpecLinks == Init /\ [][NextLinks]_vars

\* ------------------------------------------- concurrent invocations
\* The gateway delivers the delete notification of a relayed copy again.
GatewayReplay(r) ==
    /\ r \in messages
    /\ ~Exists(r.hm)
    /\ [id |-> r.hm, ch |-> r.hc, bot |-> TRUE] \notin pendingDel
    /\ pendingDel' = pendingDel \cup {[id |-> r.hm, ch |-> r.hc, bot |-> TRUE]}
    /\ UNCHANGED <<links, messages, authors, recentDelCache, platform, delivered,
                   redelivered, userDeletes, nextId, procs>>

\* Two handler invocations at a time, every call succeeding.
InitConcurrent ==
    /\ links = {}
    /\ messages = {}
    /\ authors = {}
    /\ recentDelCache = {}
    /\ platform = {}
    /\ pendingDel = {}
    /\ delivered = {}
    /\ redelivered = {}
    /\ userDeletes = 0
    /\ nextId = 1
    /\ procs = [s \in {1, 2} |-> IdleProc]

Concurrent ==
    [ch |-> {1, 2}, post |-> {1}, keys |-> {"k1"}, ukeys |-> {"d1"},
     notes |-> {""}, bodies |-> {"hi"}, faults |-> {"none"}, ids |-> MaxIds]

NextConcurrent ==
    \/ NextOn(Concurrent)
    \/ \E r \in messages : GatewayReplay(r)

SpecConcurrent == InitConcurrent /\ [][NextConcurrent]_vars

\* ------------------------------------------------- replies and edits
MaxIdsReplies == 5        \* message ids the platform hands out where users reply
MaxIdsEdits == 4          \* message ids the platform hands out where users edit

\* Users post and reply, an administrator links channels, and the create
\* handler relays: the steps of NextOn that replies depend on.
NextRelay(in) ==
    \/ \E c \in in.post, b \in in.bodies, a \in AuthorInputs :
         \E ref \in {0} \cup {m.id : m \in platform} : UserPost(c, ref, b, a, in.ids)
    \/ \E s \in DOMAIN procs : Return(s)
    \/ \E s \in DOMAIN procs, c \in in.ch, k \in in.keys, note \in in.notes :
         onCommandInteractionCreateLink(s, c, k, note, "none")
    \/ \E s \in DOMAIN procs, f \in in.faults :
         \E m \in platform : OnGuildMessageCreate(s, m, f, in.ids)
    \/ \E s \in DOMAIN procs, f \in in.faults : OnGuildMessageCreateTarget(s, f)
    \/ \E s \in DOMAIN procs, f \in in.faults : OnGuildMessageCreateCommit(s, f)

\* One group of three channels; users post and reply in channel 1.
Replies ==
    [ch |-> {1, 2, 3}, post |-> {1}, keys |-> {"k1"}, notes |-> {""}, bodies |-> {"hi"},
     faults |-> {"none", "webhook", "getmsg", "save"}, ids |-> MaxIdsReplies]

NextReplies == NextRelay(Replies)

SpecReplies == Init /\ [][NextReplies]_vars

\* One group of two channels; users post, reply and edit in channel 1.
Edits ==
    [ch |-> {1, 2}, post |-> {1}, keys |-> {"k1"}, notes |-> {""}, bodies |-> {"hi"},
     edits |-> {"yo"}, faults |-> {"none", "getmsg", "edit"}, ids |-> MaxIdsEdits]

NextEdits ==
    \/ NextRelay(Edits)
    \/ \E m \in platform, b \in Edits.edits : UserEdit(m, b)
    \/ \E s \in DOMAIN procs, f \in Edits.faults :
         \E m \in platform : OnGuildMessageUpdate(s, m, f)
    \/ \E s \in DOMAIN procs, f \in Edits.faults : OnGuildMessageUpdateTarget(s, f)

SpecEdits == Init /\ [][NextEdits]_vars

\* ------------------------------------------- deletes racing the relay
MaxIdsRaces == 3          \* message ids the platform hands out where deletes race

\* A user deletes a message while its create handler is still running.
UserDeleteInFlight(m) ==
    /\ m \in platform
    /\ ~m.bot
    /\ \E s \in DOMAIN procs :
          /\ procs[s].kind = "create"
          /\ procs[s].pc \in {"create_loop", "create_commit"}
          /\ procs[s].ev.id = m.id
    /\ userDeletes < MaxUserDeletes
    /\ userDeletes' = userDeletes + 1
    /\ platform' = platform \ {m}
    /\ pendingDel' = pendingDel \cup {[id |-> m.id, ch |-> m.ch, bot |-> m.bot]}
    /\ UNCHANGED <<links, messages, authors, recentDelCache, delivered, redelivered,
                   nextId, procs>>

\* One group of three channels, two invocations at a time, every call
\* succeeding; channels are linked and never unlinked.
Races ==
    [ch |-> {1, 2, 3}, post |-> {1}, keys |-> {"k1"}, notes |-> {""}, bodies |-> {"hi"},
     faults |-> {"none"}, ids |-> MaxIdsRaces]

NextRaces ==
    \/ NextRelay(Races)
    \/ \E m \in platform : UserDelete(m)
    \/ \E m \in platform : UserDeleteInFlight(m)
    \/ \E s \in DOMAIN procs :
         \E n \in pendingDel, bot \in BOOLEAN : OnGuildMessageDelete(s, n, bot, "none")
    \/ \E s \in DOMAIN procs : OnGuildMessageDeleteTarget(s, "none")
    \/ \E s \in DOMAIN procs : OnGuildMessageDeleteStore(s)

SpecRaces == InitConcurrent /\ [][NextRaces]_vars

\* ------------------------------------------- the store under two writers
MaxIdsStore == 4          \* message ids the platform hands out with two writers

\* Another invocation's transaction has written and not yet ended: its
\* connection holds the database's write lock, and a write of invocation s
\* waits for it.
StoreHeldByOther(s) ==
    \E t \in DOMAIN procs \ {s} :
        procs[t].txOpen /\ (procs[t].txAuth # {} \/ procs[t].txMsgs # {})

Store ==
    [ch |-> {1, 2, 3}, post |-> {1}, keys |-> {"k1"}, notes |-> {""}, bodies |-> {"hi"},
     ids |-> MaxIdsStore]

\* Two invocations at a time, every platform call succeeding.  A write that
\* finds the store held by the other invocation either waits until that
\* transaction has ended (the step is taken later) or gives up with
\* "database is locked" (the step is taken now, failing).
NextStore ==
    \/ \E c \in Store.post, b \in Store.bodies, a \in AuthorInputs :
         UserPost(c, 0, b, a, Store.ids)
    \/ \E s \in DOMAIN procs : Return(s)
    \/ \E s \in DOMAIN procs, c \in Store.ch, k \in Store.keys, note \in Store.notes :
         onCommandInteractionCreateLink(s, c, k, note, "none")
    \/ \E s \in DOMAIN procs, m \in platform :
         OnGuildMessageCreate(s, m, IF StoreHeldByOther(s) THEN "author" ELSE "none",
                              Store.ids)
    \/ \E s \in DOMAIN procs :
         OnGuildMessageCreateTarget(s, IF StoreHeldByOther(s) THEN "save" ELSE "none")
    \/ \E s \in DOMAIN procs : OnGuildMessageCreateCommit(s, "none")
    \/ \E s \in DOMAIN procs, m \in platform : OnGuildMessageUpdate(s, m, "none")
    \/ \E s \in DOMAIN procs : OnGuildMessageUpdateTarget(s, "none")

SpecStore == InitConcurrent /\ [][NextStore]_vars

\* ------------------------------------------- who may run the commands
\* The DefaultMemberPermissions of the commands the program registers.
commands ==
    [name \in {"link", "unlink", "unlink_all", "list"} |->
        IF name = "link" THEN {"ManageChannels"} ELSE {}]

\* The callers: one member with the manage-channels permission and one
\* without.  The invocation slot of an interaction is its caller.
MemberPermissions ==
    [member \in {"admin", "guest"} |->
        IF member = "admin" THEN {"ManageChannels"} ELSE {}]

InitPermissions ==
    /\ links = {}
    /\ messages = {}
    /\ authors = {}
    /\ recentDelCache = {}
    /\ platform = {}
    /\ pendingDel = {}
    /\ delivered = {}
    /\ redelivered = {}
    /\ userDeletes = 0
    /\ nextId = 1
    /\ procs = [member \in DOMAIN MemberPermissions |-> IdleProc]

\* The platform offers a registered command to the members that hold its
\* default member permissions.
Admitted(member, name) == commands[name] \subseteq MemberPermissions[member]

NextPermissions ==
    \/ \E s \in DOMAIN procs : Return(s)
    \/ \E s \in DOMAIN procs, c \in Links.ch, k \in Links.keys, note \in Links.notes,
          f \in Links.faults :
         Admitted(s, "link") /\ onCommandInteractionCreateLink(s, c, k, note, f)
    \/ \E s \in DOMAIN procs, c \in Links.ch, k \in Links.ukeys, f \in Links.faults :
         Admitted(s, "unlink") /\ onCommandInteractionCreateUnlink(s, c, k, f)
    \/ \E s \in DOMAIN procs, c \in Links.ch, f \in Links.faults :
         Admitted(s, "unlink_all") /\ onCommandInteractionCreateUnlinkAll(s, c, f)
    \/ \E s \in DOMAIN procs, c \in Links.ch, f \in Links.faults :
         Admitted(s, "list") /\ onCommandInteractionCreateList(s, c, f)

SpecPermissions == InitPermissions /\ [][NextPermissions]_vars

\* ------------------------------------------------- every kind of event
\* One group of two channels with commands, posts, edits and deletions.
Events ==
    [ch |-> {1, 2}, post |-> {1}, keys |-> {"k1"}, ukeys |-> {"d1"}, notes |-> {""},
     bodies |-> {"hi"}, edits |-> {"yo"}, faults |-> {"none", "save", "commit"},
     ids |-> MaxIds]

NextEvents ==
    \/ NextOn(Events)
    \/ \E m \in platform, b \in Events.edits : UserEdit(m, b)
    \/ \E s \in DOMAIN procs, f \in Events.faults :
         \E m \in platform : OnGuildMessageUpdate(s, m, f)
    \/ \E s \in DOMAIN procs, f \in Events.faults : OnGuildMessageUpdateTarget(s, f)

SpecEvents == Init /\ [][NextEvents]_vars

\* --------------------------------------------------------- attachments
MaxAttachments == 2       \* attachments of one message
MaxIdsAttachments == 2    \* message ids the platform hands out where users upload

\* The attachment lists of a message: every size at the limit or just above
\* it, in every order.
AttachmentLists ==
    UNION {[1..n -> {MaxAttachmentSize, MaxAttachmentSize + 1}] : n \in 1..MaxAttachments}

\* One group of two channels; users post, reply, upload and edit in channel 1.
Attachments ==
    [ch |-> {1, 2}, post |-> {1}, keys |-> {"k1"}, notes |-> {""}, bodies |-> {"", "hi"},
     edits |-> {"yo"}, faults |-> {"none", "getmsg", "download"},
     ids |-> MaxIdsAttachments]

NextAttachments ==
    \/ NextRelay(Attachments)
    \/ \E c \in Attachments.post, b \in Attachments.bodies, a \in AuthorInputs,
          att \in AttachmentLists : UserUpload(c, b, a, att, Attachments.ids)
    \/ \E s \in DOMAIN procs, f \in Attachments.faults : OnGuildMessageCreateDownload(s, f)
    \/ \E m \in platform, b \in Attachments.edits : UserEdit(m, b)
    \/ \E s \in DOMAIN procs, f \in Attachments.faults :
         \E m \in platform : OnGuildMessageUpdate(s, m, f)
    \/ \E s \in DOMAIN procs, f \in Attachments.faults : OnGuildMessageUpdateTarget(s, f)

SpecAttachments == Init /\ [][NextAttachments]_vars

\* The same program under the scheduling the runtime gives it: every handler
\* runs in its own goroutine and goes on whenever it can, the calls to the
\* platform's REST client and to the store return, and a finished handler
\* returns.  http.Get(attach.URL) goes through http.DefaultClient, which has
\* no timeout, and takes no context: nothing makes the download return.
SpecDownloads ==
    /\ Init /\ [][NextAttachments]_vars
    /\ WF_vars(\E s \in DOMAIN procs, f \in Attachments.faults : OnGuildMessageCreateTarget(s, f))
    /\ WF_vars(\E s \in DOMAIN procs, f \in Attachments.faults : OnGuildMessageCreateCommit(s, f))
    /\ WF_vars(\E s \in DOMAIN procs, f \in Attachments.faults : OnGuildMessageUpdateTarget(s, f))
    /\ WF_vars(\E s \in DOMAIN procs : Return(s))

\* ---------------------------------------------------- the quoted preview
\* Texts are sequences of bytes: "a" a letter, " " and "\n" white space,
\* "-" and "#" the marker, "L" the lead byte of a two-byte scalar value and
\* "c" a continuation byte.
IsSpace(b) == b \in {" ", "\n"}

\* The byte positions at which `for i := range s` starts a rune: every byte
\* but the continuation byte that completes a two-byte rune (a stray
\* continuation or lead byte decodes as one rune of width 1).
RuneStarts(s) == {i \in 1..Len(s) : ~(s[i] = "c" /\ i > 1 /\ s[i - 1] = "L")}

\* s[i:], with i a byte offset.
From(s, i) == SubSeq(s, i + 1, Len(s))

\* texts.SkipLine: the offset after the first line feed, or len(s).
SkipLine(s) ==
    IF \E i \in 1..Len(s) : s[i] = "\n"
    THEN CHOOSE i \in 1..Len(s) : s[i] = "\n" /\ \A j \in 1..(i - 1) : s[j] # "\n"
    ELSE Len(s)

\* strings.HasPrefix
HasPrefix(s, prefix) ==
    Len(s) >= Len(prefix) /\ SubSeq(s, 1, Len(prefix)) = prefix

\* texts.SkipPrefixedLine: the offset after the leading lines that begin with
\* the prefix.
RECURSIVE SkipPrefixedLineFrom(_, _, _)
SkipPrefixedLineFrom(s, prefix, i) ==
    IF HasPrefix(From(s, i), prefix)
    THEN SkipPrefixedLineFrom(s, prefix, i + SkipLine(From(s, i)))
    ELSE i

\* texts.SkipPrefixedLine with `if` in place of `for`: one line is skipped.
SkipPrefixedLineOnce(s, prefix) ==
    IF HasPrefix(s, prefix) THEN SkipLine(s) ELSE 0

SkipPrefixedLine(s, prefix) == SkipPrefixedLineFrom(s, prefix, 0)

\* texts.NthRune: the byte offset of the rune with n runes before it, or
\* len(s) when s has at most n runes.
NthRune(s, n) ==
    IF Cardinality(RuneStarts(s)) > n
    THEN (CHOOSE i \in RuneStarts(s) :
             Cardinality({j \in RuneStarts(s) : j < i}) = n) - 1
    ELSE Len(s)

\* strings.LastIndexFunc(s, unicode.IsSpace): the offset of the last white
\* space, or -1.
LastIndexSpace(s) ==
    IF \E i \in 1..Len(s) : IsSpace(s[i])
    THEN (CHOOSE i \in 1..Len(s) :
             IsSpace(s[i]) /\ \A j \in (i + 1)..Len(s) : ~IsSpace(s[j])) - 1
    ELSE -1

\* strings.TrimRightFunc(s, unicode.IsSpace)
TrimRightSpace(s) ==
    LET keep == {i \in 0..Len(s) : \A j \in (i + 1)..Len(s) : IsSpace(s[j])}
    IN  SubSeq(s, 1, CHOOSE i \in keep : \A j \in keep : i <= j)

PreviewRunes == 128

\* The preview tryWriteReferenceHeader quotes from the referenced message's
\* content, and whether the cut indicator follows it.
referredMsgPreview(content) ==
    LET preview == From(content, SkipPrefixedLine(content, <<"-", "#">>))
        window == NthRune(preview, PreviewRunes)
        cut == SubSeq(preview, 1, window)
        lastSpace == LastIndexSpace(cut)
    IN  IF window < Len(preview)
        THEN [preview |-> TrimRightSpace(IF lastSpace > 0 THEN SubSeq(cut, 1, lastSpace)
                                         ELSE cut),
              cutIndicator |-> " **. . .**"]
        ELSE [preview |-> TrimRightSpace(preview), cutIndicator |-> ""]

MaxSpaces == 2            \* white-space positions in a referenced text
MaxWide == 64             \* letters of a text that are two bytes wide

\* The texts quoted: n scalar values, white space at the positions sp, the
\* letters from the third on two bytes wide, after an optional marker line.
TextLengths == {0, 1, 127, 128, 129, 150, 200}
SpacePositions == {1, 2, 100, 101, 128, 129, 150}

\* The leading lines of a text: none, one marker line, two marker lines (the
\* header block of a relayed reply), a marker line that is not terminated.
MarkerLines ==
    {<<>>,
     <<"-", "#", " ", "a", "\n">>,
     <<"-", "#", " ", "a", "\n", "-", "#", " ", "a", "\n">>,
     <<"-", "#", " ">>}

TextBytes(n, sp, wide) ==
    LET rune(k) == IF k \in sp THEN " " ELSE "a"
        h == IF n < 2 THEN n ELSE 2
        w == IF n - h < wide THEN n - h ELSE wide
    IN  [k \in 1..h |-> rune(k)]
        \o [i \in 1..(2 * w) |-> IF i % 2 = 1 THEN "L" ELSE "c"]
        \o [i \in 1..(n - h - w) |-> rune(i + h + w)]

Texts ==
    {marker \o TextBytes(n, sp, wide) :
        marker \in MarkerLines,
        n \in TextLengths,
        sp \in {x \in SUBSET SpacePositions : Cardinality(x) <= MaxSpaces},
        wide \in {0, MaxWide}}

\* A message with one of the texts is on the platform.
InitPreviews ==
    /\ links = {}
    /\ messages = {}
    /\ authors = {}
    /\ recentDelCache = {}
    /\ pendingDel = {}
    /\ delivered = {}
    /\ redelivered = {}
    /\ userDeletes = 0
    /\ nextId = 2
    /\ procs = [s \in {1} |-> IdleProc]
    /\ \E text \in Texts :
          platform = {[id |-> 1, ch |-> 1, bot |-> FALSE, ref |-> 0, body |-> text,
                       hdr |-> 0, name |-> "alice", uid |-> 7, att |-> <<>>,
                       files |-> <<>>, footer |-> <<>>]}

\* tryWriteReferenceHeader builds the preview of the referenced message m.
WriteReferencePreview(s, m) ==
    /\ procs[s].pc = "idle"
    /\ m \in platform
    /\ LET r == referredMsgPreview(m.body)
       IN  procs' = [procs EXCEPT ![s] =
              [IdleProc EXCEPT !.pc = "done", !.kind = "preview", !.cur = m.id,
                               !.out = r.preview, !.end = r.cutIndicator]]
    /\ UNCHANGED <<links, messages, authors, recentDelCache, platform, pendingDel,
                   delivered, redelivered, userDeletes, nextId>>

NextPreviews ==
    \/ \E s \in DOMAIN procs, m \in platform : WriteReferencePreview(s, m)
    \/ \E s \in DOMAIN procs : Return(s)

SpecPreviews == InitPreviews /\ [][NextPreviews]_vars

\* ------------------------------------------------- one name, two users
MaxIdsAuthors == 4        \* message ids the platform hands out where a name changes hands

\* One group of two channels; user 7 posts and replies as "alice", and user 8
\* takes the name once the mapping of user 7 is on record.
Authors ==
    [ch |-> {1, 2}, post |-> {1}, keys |-> {"k1"}, notes |-> {""}, bodies |-> {"hi"},
     users |-> {[name |-> "alice", id |-> 7], [name |-> "alice", id |-> 8]},
     faults |-> {"none", "author", "getmsg"}, ids |-> MaxIdsAuthors]

\* The author lookup of tryWriteReferenceHeader for a referred message m:
\* LoadAuthorID scans the first row the query returns, and the id goes into
\* the mention "(<@id>)"; without a row nothing is written.
WriteReferenceMention(s, m) ==
    /\ procs[s].pc = "idle"
    /\ m \in platform
    /\ \/ /\ LoadAuthorID(authors, m.name) = {}
          /\ procs' = [procs EXCEPT ![s] =
                [IdleProc EXCEPT !.pc = "done", !.kind = "mention", !.cur = m.id,
                                 !.end = "no_author"]]
       \/ \E referredMsgAuthorID \in LoadAuthorID(authors, m.name) :
             procs' = [procs EXCEPT ![s] =
                [IdleProc EXCEPT !.pc = "done", !.kind = "mention", !.cur = m.id,
                                 !.out = <<referredMsgAuthorID>>, !.end = "written"]]
    /\ UNCHANGED <<links, messages, authors, recentDelCache, platform, pendingDel,
                   delivered, redelivered, userDeletes, nextId>>

NextAuthors ==
    \/ \E c \in Authors.post, b \in Authors.bodies, a \in Authors.users :
         \E ref \in {0} \cup {m.id : m \in platform} :
            /\ a.id = 8 => <<a.name, 7>> \in authors
            /\ UserPost(c, ref, b, a, Authors.ids)
    \/ \E s \in DOMAIN procs : Return(s)
    \/ \E s \in DOMAIN procs, c \in Authors.ch, k \in Authors.keys, note \in Authors.notes :
         onCommandInteractionCreateLink(s, c, k, note, "none")
    \/ \E s \in DOMAIN procs, f \in Authors.faults :
         \E m \in platform : OnGuildMessageCreate(s, m, f, Authors.ids)
    \/ \E s \in DOMAIN procs, f \in Authors.faults : OnGuildMessageCreateTarget(s, f)
    \/ \E s \in DOMAIN procs : OnGuildMessageCreateCommit(s, "none")
    \/ \E s \in DOMAIN procs, m \in platform : WriteReferenceMention(s, m)

SpecAuthors == Init /\ [][NextAuthors]_vars

\* ------------------------------------------------ messages without content
MaxIdsSkips == 4          \* message ids the platform hands out where content may be empty
MaxIdsUploads == 2        \* the ids among them that a message with attachments may get

\* One group of two channels; users post and reply in channel 1, with or
\* without text, and upload one attachment without text.
Skips ==
    [ch |-> {1, 2}, post |-> {1}, keys |-> {"k1"}, notes |-> {""}, bodies |-> {"", "hi"},
     uploads |-> {<<MaxAttachmentSize>>, <<MaxAttachmentSize + 1>>},
     faults |-> {"none", "webhook", "getmsg", "download"}, ids |-> MaxIdsSkips]

NextSkips ==
    \/ NextRelay(Skips)
    \/ \E c \in Skips.post, a \in AuthorInputs, att \in Skips.uploads :
         UserUpload(c, "", a, att, MaxIdsUploads)
    \/ \E s \in DOMAIN procs, f \in Skips.faults : OnGuildMessageCreateDownload(s, f)

SpecSkips == Init /\ [][NextSkips]_vars

\* ------------------------------------------------------ properties
Channels == {r.ch : r \in links}

Creates == {s \in DOMAIN procs : procs[s].kind = "create"}

\* The positions of the fan-out of handler s whose send to channel c succeeded.
SentTo(s, c) ==
    {j \in DOMAIN procs[s].out :
        procs[s].targets[j] = c /\ procs[s].out[j] \in {"sent", "sent_unsaved"}}

\* The handler entered the fan-out loop and has ended.
FannedOut(s) ==
    /\ procs[s].kind = "create"
    /\ procs[s].pc = "done"
    /\ procs[s].end \in {"committed", "commit_failed", "panicked"}

\* C1: the related-channels lookup for a channel returns every other channel
\* that shares at least one group with it exactly once, however many groups
\* the two channels have in common.
C1_RelatedChannelsOnce ==
    \A c \in Channels : \A targetChannels \in LoadRelatedChannels(links, c) :
        \A d \in Channels \ {c} :
            Count(targetChannels, d) = (IF SharesGroup(links, c, d) THEN 1 ELSE 0)

\* C2: one source message produces at most one copy in each target channel
\* during one run of the create handler, also when the source channel shares
\* several groups with the target.
C2_OneCopyPerTarget ==
    \A s \in Creates : \A c \in Channels :
        /\ Cardinality(SentTo(s, c)) <= 1
        /\ Cardinality({r \in procs[s].txMsgs : r.hc = c}) <= 1

\* C3: /unlink with a label removes the link row that /link created for the
\* same label and channel, and answers with the success embed.
C3_UnlinkRemovesLink ==
    [][\A s \in DOMAIN procs : \A c \in Channels : \A k \in Links.keys :
          (/\ \E r \in links : r.key = Sha256Hex(k) /\ r.ch = c
           /\ onCommandInteractionCreateUnlink(s, c, k, "none"))
          => /\ procs'[s].end = "success"
             /\ Cardinality(links') = Cardinality(links) - 1
             /\ ~\E r \in links' : r.key = Sha256Hex(k) /\ r.ch = c]_vars

\* C4: the symmetric lookup resolves a copy of a source message to the copy
\* of the same source message in another target channel.
C4_CopyToCopy ==
    \A r1, r2 \in messages :
        (r1.oc = r2.oc /\ r1.om = r2.om /\ r1.hc # r2.hc)
            => r2.hm \in LoadDirelatedMessageID(messages, r2.hc, r1.hm)

\* C5: the symmetric lookup yields exactly one id, or "not found": for every
\* stored row, the source resolves to one copy in the copy's channel and the
\* copy resolves to one source in the source's channel.
C5_LookupSingleValued ==
    \A r \in messages :
        /\ LoadDirelatedMessageID(messages, r.hc, r.om) = {r.hm}
        /\ LoadDirelatedMessageID(messages, r.oc, r.hm) = {r.om}

\* C6: the targets of a fan-out are processed independently: a failure on
\* one target does not keep the remaining targets from being attempted.
C6_EveryTargetAttempted ==
    \A s \in DOMAIN procs :
        FannedOut(s) => Len(procs[s].out) = Len(procs[s].targets)

\* C7: when the relay to one target fails, the correlation rows written for
\* the other targets of the same event are preserved (short of a failed
\* commit).
C7_RowsPreserved ==
    \A s \in DOMAIN procs :
        (/\ FannedOut(s)
         /\ procs[s].end # "commit_failed"
         /\ \E j \in DOMAIN procs[s].out :
              procs[s].out[j] \in {"webhook_failed", "send_failed"})
            => procs[s].txMsgs \subseteq messages

\* C8: handling the same creation event again produces no further copy and
\* no further correlation row.
C8_RedeliveryIdempotent ==
    [][\A s \in DOMAIN procs :
          (procs[s].kind = "create" /\ procs[s].ev.again /\ procs[s].pc # "done")
              => (Copies' \subseteq Copies /\ messages' = messages)]_vars

\* C9: after the create handler of a first delivery has run without a
\* persistence failure, there is exactly one correlation row for each target
\* whose send succeeded, and none for the other targets.
C9_OneRowPerSentTarget ==
    \A s \in DOMAIN procs :
        (/\ FannedOut(s)
         /\ ~procs[s].ev.again
         /\ procs[s].end # "commit_failed"
         /\ \A j \in DOMAIN procs[s].out : procs[s].out[j] # "sent_unsaved")
            => \A j \in DOMAIN procs[s].targets :
                 LET c == procs[s].targets[j]
                     rows == {r \in messages : r.oc = procs[s].ev.ch
                                                /\ r.om = procs[s].ev.id /\ r.hc = c}
                 IN  Cardinality(rows) = (IF SentTo(s, c) # {} THEN 1 ELSE 0)

\* C10: a deletion notification for an id held in the self-deletion set
\* removes the id from the set and stops the handler before it touches
\* anything else.
C10_SelfDeletionConsumed ==
    [][\A s \in DOMAIN procs :
          (/\ procs[s].pc = "idle"
           /\ procs'[s].kind = "delete"
           /\ procs'[s].ev.id \in recentDelCache)
              => /\ procs'[s].ev.id \notin recentDelCache'
                 /\ procs'[s].end = "self_deleted"]_vars

Deletes == {s \in DOMAIN procs : procs[s].kind = "delete"}

\* C11: a delete handler past the self-deletion check issues, for every
\* target with a recorded copy of the deleted message (and a usable
\* webhook), a delete of a recorded copy; it skips the targets without one;
\* and the self-deletion set gains exactly the copy whose deletion has just
\* succeeded, never the copy of a failed deletion.
C11_DeletePropagates ==
    [][\A s \in Deletes :
          LET p == procs[s]
              q == procs'[s]
              related == IF p.pc = "delete_loop"
                         THEN LoadRelatedMessageID(messages, p.targets[p.i], p.ev.id)
                         ELSE {}
          IN  /\ p.pc = "delete_loop" /\ related = {} =>
                   /\ q.out = Append(p.out, "no_copy")
                   /\ platform' = platform /\ recentDelCache' = recentDelCache
              /\ p.pc = "delete_loop" /\ related # {} =>
                   \/ q.out = Append(p.out, "webhook_failed")
                        /\ platform' = platform /\ recentDelCache' = recentDelCache
                   \/ q.out = Append(p.out, "delete_failed")
                        /\ platform' = platform /\ recentDelCache' = recentDelCache
                   \/ /\ q.pc = "delete_store" /\ q.cur \in related
                      /\ Exists(q.cur) /\ platform' = platform \ {MessageOf(q.cur)}
                      /\ recentDelCache' = recentDelCache
              /\ p.pc = "delete_store" =>
                   /\ recentDelCache' = recentDelCache \cup {p.cur}
                   /\ q.out = Append(p.out, "deleted")]_vars

\* A delete handler has ended after deleting one copy and failing on
\* another; the deleted copy is in the set.
C11_Witness ==
    \E s \in Deletes :
        /\ procs[s].pc = "done"
        /\ procs[s].out = <<"deleted", "delete_failed">>
        /\ Cardinality(recentDelCache) = 1
        /\ Cardinality(Copies) = 1

\* C12: recentDelCache.LoadAndDelete answers true exactly when the id is in
\* the set and removes it in the same step, so after one Store of an id one
\* consume observes it and every later one does not; of two delete handlers
\* running at the same time for the same id at most one ends as
\* self-deleted.
C12_ConsumeOnce ==
    [][\A s \in DOMAIN procs :
          (procs[s].pc = "idle" /\ procs'[s].kind = "delete" /\ ~procs'[s].ev.bot)
              => LET x == procs'[s].ev.id
                 IN  /\ procs'[s].end = "self_deleted" <=> x \in recentDelCache
                     /\ recentDelCache' = recentDelCache \ {x}
                     /\ procs'[s].end = "self_deleted" =>
                          \A t \in DOMAIN procs \ {s} :
                              ~(/\ procs'[t].kind = "delete"
                                /\ procs'[t].end = "self_deleted"
                                /\ procs'[t].ev.id = x)]_vars

\* Two delete handlers have consumed the same id: one observed it, the
\* other, handling the replayed notification, did not.
C12_Witness ==
    \E s, t \in Deletes :
        /\ s # t
        /\ procs[s].ev.id = procs[t].ev.id
        /\ procs[s].end = "self_deleted"
        /\ procs[t].pc = "done" /\ procs[t].end = "returned"
        /\ procs[s].ev.id \notin recentDelCache

\* PRIMARY KEY (virtual_channel_key, channel_id) of the links table.
LinkKeyUnique(tbl) ==
    \A r, q \in tbl : (r.key = q.key /\ r.ch = q.ch) => r = q

\* C13: /link without a database error always answers success and leaves
\* exactly one row for (digest of the key, channel); repeating a link whose
\* row is there leaves the table as it was; and no step ever makes a
\* (key, channel) pair occur twice.
C13_AddLinkIdempotent ==
    [][/\ LinkKeyUnique(links')
       /\ \A s \in DOMAIN procs : \A c \in Links.ch : \A k \in Links.keys :
            \A note \in Links.notes :
               onCommandInteractionCreateLink(s, c, k, note, "none") =>
                  /\ procs'[s].end = "success"
                  /\ Cardinality({r \in links' : r.key = Sha256Hex(k) /\ r.ch = c}) = 1
                  /\ [key |-> Sha256Hex(k), ch |-> c, note |-> note] \in links
                        => links' = links]_vars

\* A /link has just succeeded without inserting: its row was already there.
C13_Witness ==
    \E s \in DOMAIN procs :
        /\ procs[s].kind = "link" /\ procs[s].end = "success" /\ procs[s].cur = 0
        /\ Cardinality(links) >= 2

C15_UnlinkNotFound ==
    [][\A s \in DOMAIN procs : \A c \in Links.ch : \A k \in Links.ukeys :
          /\ (/\ onCommandInteractionCreateUnlink(s, c, k, "none")
              /\ ~\E r \in links : r.key = k /\ r.ch = c)
                => /\ links' = links
                   /\ procs'[s].cur = 0
                   /\ procs'[s].end = "notfound"
          /\ onCommandInteractionCreateUnlink(s, c, k, "exec")
                => /\ links' = links
                   /\ procs'[s].end = "error"]_vars

\* An /unlink has just answered not-found against a table that holds rows.
C15_Witness ==
    \E s \in DOMAIN procs :
        /\ procs[s].kind = "unlink" /\ procs[s].end = "notfound"
        /\ links # {}

\* C16: /unlink_all in channel c removes exactly the rows of c and reports
\* how many (zero rows are reported as not-found); every row of another
\* channel stays; afterwards c has no related channel and is related to no
\* channel.
C16_UnlinkAllFrame ==
    [][\A s \in DOMAIN procs : \A c \in Links.ch :
          onCommandInteractionCreateUnlinkAll(s, c, "none") =>
             /\ links' = {r \in links : r.ch # c}
             /\ procs'[s].cur = Cardinality({r \in links : r.ch = c})
             /\ procs'[s].end = IF procs'[s].cur = 0 THEN "notfound" ELSE "success"
             /\ LoadRelatedChannels(links', c) = {<<>>}
             /\ \A d \in Links.ch : \A targetChannels \in LoadRelatedChannels(links', d) :
                  Count(targetChannels, c) = 0]_vars

\* An /unlink_all has just removed the two rows of its channel and left the
\* rows of another channel.
C16_Witness ==
    \E s \in DOMAIN procs :
        /\ procs[s].kind = "unlink_all" /\ procs[s].end = "success" /\ procs[s].cur = 2
        /\ Cardinality(links) = 2

\* C17: every step of an update handler leaves the set of platform messages
\* and the correlation rows as they are (it never sends a message); in the
\* per-target loop, a target for which no copy of the source message is
\* recorded is skipped with the platform untouched, and a target with a
\* recorded copy gets one UpdateMessage on a recorded copy of that target,
\* whose content becomes the reference header tryWriteReferenceHeader
\* writes for that target (none when a lookup failed) followed by the
\* message's text, unless loadOrCreateWebhook or UpdateMessage failed.
C17_UpdateEditsRecordedCopy ==
    [][\A s \in DOMAIN procs :
         (procs'[s] # procs[s] /\ procs'[s].kind = "update") =>
            /\ nextId' = nextId
            /\ {m.id : m \in platform'} = {m.id : m \in platform}
            /\ messages' = messages
            /\ procs[s].pc # "update_loop" => platform' = platform
            /\ procs[s].pc = "update_loop" =>
                  LET p == procs[s]
                      t == p.targets[p.i]
                      related == LoadRelatedMessageID(messages, t, p.ev.id)
                      o == procs'[s].out[p.i]
                  IN  /\ Len(procs'[s].out) = p.i
                      /\ related = {} => o = "no_copy"
                      /\ related # {} => o \in {"edited", "edit_failed", "webhook_failed"}
                      /\ o # "edited" => platform' = platform
                      /\ o = "edited" =>
                            \E r \in related, h \in tryWriteReferenceHeader(t, p.ev.ref, "none") \cup {0} :
                               /\ Exists(r)
                               /\ MessageOf(r).ch = t
                               /\ platform' = (platform \ {MessageOf(r)}) \cup
                                     {[MessageOf(r) EXCEPT !.body = p.ev.body, !.hdr = h,
                                                           !.footer = p.footer]}]_vars

\* An edited reply has been propagated: the update handler skipped nothing,
\* and the copy carries the new text under a rebuilt reference header.
C17_Witness ==
    \E s \in DOMAIN procs :
        /\ procs[s].kind = "update"
        /\ procs[s].pc = "done"
        /\ procs[s].out = <<"edited">>
        /\ procs[s].ev.ref # 0
        /\ \E m \in Copies : m.body = "yo" /\ m.hdr # 0 /\ m.ch = procs[s].targets[1]

\* C18: a create notification whose author carries the Bot flag (a relayed
\* copy) ends the handler at once, with no message sent and no row written;
\* every correlation row that is written has the message of a handler that
\* passed the guard, a user's message, as its source.
C18_CopiesNotRelayed ==
    [][/\ \A s \in DOMAIN procs :
            (procs'[s] # procs[s] /\ procs'[s].kind = "create" /\ procs'[s].ev.bot) =>
               /\ procs'[s].pc = "done"
               /\ procs'[s].end = "ignored"
               /\ platform' = platform
               /\ nextId' = nextId
               /\ messages' = messages
       /\ \A r \in messages' \ messages :
            \E s \in DOMAIN procs :
               /\ procs[s].kind = "create"
               /\ ~procs[s].ev.bot
               /\ r.om = procs[s].ev.id
               /\ \A m \in platform : m.id = r.om => ~m.bot]_vars

\* The create notification of a recorded relayed copy has been handled.
C18_Witness ==
    \E s \in DOMAIN procs :
        /\ procs[s].kind = "create"
        /\ procs[s].pc = "done"
        /\ procs[s].end = "ignored"
        /\ \E r \in messages : r.hm = procs[s].ev.id
        /\ \E m \in Copies : m.id = procs[s].ev.id

\* C19: an iteration of the create loop for a reply whose referenced message
\* has no row placing a message of its correlation class in the target
\* channel relays the message like any other: the handler goes on to the next
\* target or to the commit, a message with text is not skipped, and the copy
\* sent into the target has the text and no reference header.
C19_ReplyWithoutRepresentative ==
    [][\A s \in DOMAIN procs :
         LET p == procs[s]
             t == p.targets[p.i]
             class == {q \in messages :
                          \/ q.om = p.ev.ref
                          \/ \E q2 \in messages :
                                q2.hm = p.ev.ref /\ q2.oc = q.oc /\ q2.om = q.om}
             o == procs'[s].out[p.i]
         IN  (/\ p.pc = "create_loop"
              /\ procs'[s] # p
              /\ p.ev.ref # 0
              /\ ~\E q \in class : q.hc = t \/ q.oc = t) =>
                /\ procs'[s].i = p.i + 1
                /\ procs'[s].pc = IF p.i = Len(p.targets) THEN "create_commit" ELSE "create_loop"
                /\ o \in {"sent", "sent_unsaved", "webhook_failed", "skipped"}
                /\ o = "skipped" => p.ev.body = ""
                /\ o \in {"sent", "sent_unsaved"} =>
                      platform' = platform \cup
                         {[id |-> nextId, ch |-> t, bot |-> TRUE, ref |-> 0,
                           body |-> p.ev.body, hdr |-> 0, name |-> p.ev.name, uid |-> 0,
                           att |-> <<>>, files |-> p.attach, footer |-> p.footer]}
                /\ o \notin {"sent", "sent_unsaved"} => platform' = platform]_vars

\* A reply has been relayed into two targets by one handler: with a reference
\* header where the referenced message has a copy, without one where it has
\* none.
C19_Witness ==
    \E s \in DOMAIN procs :
        /\ procs[s].kind = "create"
        /\ procs[s].end = "committed"
        /\ procs[s].ev.ref # 0
        /\ procs[s].out = <<"sent", "sent">>
        /\ \E r1, r2 \in messages :
              /\ r1.om = procs[s].ev.id
              /\ r2.om = procs[s].ev.id
              /\ Exists(r1.hm) /\ MessageOf(r1.hm).hdr # 0
              /\ Exists(r2.hm) /\ MessageOf(r2.hm).hdr = 0
              /\ LoadDirelatedMessageID(messages, r2.hc, procs[s].ev.ref) = {}

\* C20: a command handler runs from the idle dispatcher to its return in one
\* step, on which it has sent exactly one embed, the success, the not-found
\* or the error embed, and nothing is sent for the invocation afterwards.
C20_OneReply ==
    [][\A s \in DOMAIN procs :
         /\ (procs[s].pc = "idle" /\ procs'[s].pc # "idle") =>
               /\ procs'[s].kind \in {"link", "unlink", "unlink_all", "list"}
               /\ procs'[s].pc = "done"
               /\ Len(procs'[s].out) = 1
               /\ procs'[s].out[1] \in {"success", "notfound", "error"}
         /\ procs[s].pc = "done" => procs'[s] \in {procs[s], IdleProc}]_vars

\* /unlink_all in a channel without links has answered with the not-found
\* embed.
C20_Witness ==
    \E s \in DOMAIN procs :
        /\ procs[s].kind = "unlink_all"
        /\ procs[s].pc = "done"
        /\ procs[s].cur = 0
        /\ procs[s].out = <<"notfound">>
        /\ links # {}

\* C21: the correlation rows a create handler has written stay out of the
\* table the other handlers read for as long as its transaction is open,
\* and reach it in one step, all together, when the handler commits: a
\* reader sees none of them or all of them.
C21_RowsVisibleAtOnce ==
    [][/\ \A s \in DOMAIN procs :
            procs[s].txOpen => procs[s].txMsgs \cap messages = {}
       /\ messages' # messages =>
            \E s \in DOMAIN procs :
               /\ procs[s].pc = "create_commit"
               /\ procs'[s].end = "committed"
               /\ messages' = messages \cup procs[s].txMsgs]_vars

\* While a create handler is between its two targets, with one row written,
\* an update handler for the same message has found no copy in any target.
C21_Witness ==
    \E s, t \in DOMAIN procs :
        /\ procs[s].kind = "create"
        /\ procs[s].pc = "create_loop"
        /\ Cardinality(procs[s].txMsgs) = 1
        /\ Len(procs[s].targets) = 2
        /\ procs[t].kind = "update"
        /\ procs[t].pc = "done"
        /\ procs[t].ev.id = procs[s].ev.id
        /\ procs[t].out = <<"no_copy", "no_copy">>

\* C22: when two create handlers for different source messages run at the
\* same time and every send succeeds, then once both have committed each
\* has its author mapping and one correlation row for each copy it sent in
\* the tables.
C22_BothWritersRecorded ==
    \A s, t \in DOMAIN procs :
        (/\ s # t
         /\ procs[s].kind = "create" /\ procs[t].kind = "create"
         /\ procs[s].ev.id # procs[t].ev.id
         /\ procs[s].pc = "done" /\ procs[s].end = "committed"
         /\ procs[t].pc = "done" /\ procs[t].end = "committed")
            => /\ LoadAuthorID(authors, procs[s].ev.name) # {}
               /\ \A j \in DOMAIN procs[s].out :
                     (procs[s].out[j] \in {"sent", "sent_unsaved"})
                        => LoadRelatedMessageID(messages, procs[s].targets[j],
                                                procs[s].ev.id) # {}

\* C27: every invocation of /list, /link, /unlink and /unlink_all that the
\* program handles was made by a member holding the manage-channels
\* permission.
C27_CommandsNeedManageChannels ==
    \A s \in DOMAIN procs :
        (procs[s].pc = "done" /\ procs[s].kind \in DOMAIN commands)
            => "ManageChannels" \in MemberPermissions[s]

\* C28: a delete notification for a copy that is handled while the handler
\* that deleted the copy stands between its successful DeleteMessage and
\* the Store of the copy's id is recognised as self-caused: the handler
\* ends at the Author.Bot guard or at the self-deletion check, without
\* computing a fan-out.
C28_SelfDeleteRecognisedBeforeStore ==
    [][\A s, t \in DOMAIN procs :
          (/\ s # t
           /\ procs[s].pc = "idle"
           /\ procs'[s].kind = "delete"
           /\ procs[t].pc = "delete_store"
           /\ procs[t].cur = procs'[s].ev.id)
              => /\ procs'[s].pc = "done"
                 /\ procs'[s].end \in {"self_deleted", "ignored"}]_vars

\* C29: when every delete notification has been handled and no handler is
\* running, the self-deletion set is empty.
C29_CacheDrained ==
    (AllIdle /\ pendingDel = {}) => recentDelCache = {}

\* C30: no step of any handler, command or user removes or changes a
\* committed correlation row: the table only grows.
C30_RowsOnlyGrow ==
    [][messages \subseteq messages']_vars

\* The delete handler of a source message has deleted its copy, and the row
\* of the source message is still in the table.
C30_Witness ==
    \E s \in Deletes :
        /\ procs[s].pc = "done"
        /\ procs[s].out = <<"deleted">>
        /\ ~Exists(procs[s].ev.id)
        /\ \E r \in messages : r.om = procs[s].ev.id /\ ~Exists(r.hm)

\* C24: in the create handler, the attachments downloaded are those whose
\* size is at or below MaxAttachmentSize, each one once and in order, and
\* the URLs written to the footer are those of the attachments above it, in
\* order: while the handler waits in a download, the attachment is at or
\* below the limit, every such attachment before it has had its download,
\* and the download adds it to the files (or, when the download failed,
\* drops it); every copy the handler sends carries the files downloaded and
\* the footer of all the attachments above the limit.  The update handler
\* rebuilds that footer, downloads nothing and leaves the files of every
\* message as they are.
C24_AttachmentPolicy ==
    [][\A s \in DOMAIN procs :
         LET p == procs[s]
             q == procs'[s]
             Above(att, n) == {k \in 1..n : att[k] > MaxAttachmentSize}
             Below(att, n) == {k \in 1..n : att[k] <= MaxAttachmentSize}
             Ascending(f) == \A i, j \in DOMAIN f : i < j => f[i] < f[j]
             Lists(f, S) == /\ {f[j] : j \in DOMAIN f} = S
                            /\ Len(f) = Cardinality(S)
                            /\ Ascending(f)
         IN  /\ (q # p /\ q.kind = "create" /\ q.pc = "create_download") =>
                   /\ q.cur \in Below(q.ev.att, Len(q.ev.att))
                   /\ Lists(q.footer, Above(q.ev.att, q.cur))
                   /\ Ascending(q.attach)
                   /\ {q.attach[j] : j \in DOMAIN q.attach} \subseteq Below(q.ev.att, q.cur - 1)
                   /\ p.pc = "create_download" => p.cur < q.cur
                   /\ \A k \in Below(q.ev.att, q.cur - 1) :
                         p.pc = "create_download" /\ (p.cur = k \/ k < p.cur)
             /\ p.pc = "create_download" =>
                   \/ q = p
                   \/ q.attach \in {p.attach, Append(p.attach, p.cur)}
             /\ (q # p /\ q.kind = "create" /\ q.pc \in {"create_loop", "create_commit"}
                   /\ p.pc \in {"idle", "create_download"}) =>
                   /\ Lists(q.footer, Above(q.ev.att, Len(q.ev.att)))
                   /\ \A k \in Below(q.ev.att, Len(q.ev.att)) :
                         p.pc = "create_download" /\ (p.cur = k \/ k < p.cur)
             /\ (p.pc = "create_loop") =>
                   /\ q.attach = p.attach /\ q.footer = p.footer
                   /\ \A r \in platform' \ platform :
                         /\ r.files = p.attach
                         /\ r.footer = p.footer
                         /\ Lists(r.footer, Above(p.ev.att, Len(p.ev.att)))
             /\ (q # p /\ q.kind = "update") =>
                   /\ q.pc # "create_download"
                   /\ q.attach = <<>>
                   /\ q.pc = "update_loop" =>
                         Lists(q.footer, Above(q.ev.att, Len(q.ev.att)))
                   /\ \A m \in platform : \A r \in platform' :
                         r.id = m.id => r.files = m.files
                   /\ \A r \in platform' \ platform :
                         /\ r.footer = p.footer
                         /\ Lists(r.footer, Above(p.ev.att, Len(p.ev.att)))]_vars

\* A message with one attachment at the limit and one above it has been
\* relayed and then edited: its copy carries the downloaded file, the URL of
\* the other attachment, and the edited text.
C24_Witness ==
    \E m, r \in platform :
        /\ ~m.bot /\ Len(m.att) = 2
        /\ m.att[1] = MaxAttachmentSize /\ m.att[2] > MaxAttachmentSize
        /\ r.bot /\ r.files = <<1>> /\ r.footer = <<2>> /\ r.body = "yo"
        /\ \E x \in messages : x.om = m.id /\ x.hm = r.id

\* C26: an iteration of the create handler's loop skips its target, sending
\* nothing and adding no correlation row, exactly when the content built for
\* the target is empty (no header written, no text, no URL footer) and no
\* attachment was downloaded; in every other case it sends to the target,
\* unless loadOrCreateWebhook failed before the content was built.
C26_SkipExactlyWhenEmpty ==
    [][\A s \in DOMAIN procs :
         LET p == procs[s]
             q == procs'[s]
             t == p.targets[p.i]
             o == q.out[p.i]
             text == p.ev.body # "" \/ p.footer # <<>>
             files == p.attach # <<>>
             headers == tryWriteReferenceHeader(t, p.ev.ref, "none") \ {0}
         IN  (p.pc = "create_loop" /\ q # p) =>
                /\ Len(q.out) = p.i
                /\ o \in {"skipped", "webhook_failed", "sent", "sent_unsaved", "send_failed"}
                /\ o = "skipped" =>
                      /\ ~text /\ ~files
                      /\ platform' = platform /\ nextId' = nextId
                      /\ q.txMsgs = p.txMsgs /\ messages' = messages
                /\ o \in {"sent", "sent_unsaved"} =>
                      \E r \in platform' \ platform :
                         /\ r.ch = t /\ r.bot
                         /\ text \/ files \/ (r.hdr # 0 /\ r.hdr \in headers)
                /\ o = "send_failed" => text \/ files \/ headers # {}
                /\ (text \/ files) => o # "skipped"
                /\ (~text /\ ~files /\ headers = {}) => o \in {"skipped", "webhook_failed"}]_vars

\* A message without text whose only attachment failed to download was
\* skipped for its target: nothing was sent, no row was written.
C26_Witness ==
    \E s \in DOMAIN procs :
        /\ procs[s].kind = "create" /\ procs[s].pc = "done" /\ procs[s].end = "committed"
        /\ procs[s].out = <<"skipped">>
        /\ procs[s].ev.att = <<MaxAttachmentSize>>
        /\ \A m \in platform : ~m.bot
        /\ messages = {}

\* C23: every invocation of an event handler that has started eventually
\* completes, whatever the external calls do (the handlers of this
\* specification run one at a time, in invocation 1).
C23_HandlersComplete ==
    (procs[1].pc # "idle") ~> (procs[1].pc = "done")

\* C25: the preview quoted from a referenced text (the content after its
\* leading marker lines, trailing white space aside) holds at most 128
\* scalar values; a text of at most 128 scalar values is quoted whole,
\* without the cut indicator; a longer text is cut to its first 128 scalar
\* values, then cut back to the last white space inside that window when
\* there is one, and the cut indicator follows it.
C25_PreviewTruncation ==
    \A s \in DOMAIN procs :
        (procs[s].kind = "preview" /\ procs[s].pc = "done") =>
           LET content == MessageOf(procs[s].cur).body
               text == From(content, SkipPrefixedLine(content, <<"-", "#">>))
               preview == procs[s].out
               Scalars(x) == Cardinality(RuneStarts(x))
               k == CHOOSE i \in 0..Len(text) :
                       /\ Scalars(SubSeq(text, 1, i)) = PreviewRunes
                       /\ i = Len(text) \/ (i + 1) \in RuneStarts(text)
               first == SubSeq(text, 1, k)
               spaces == {i \in 1..Len(first) : IsSpace(first[i])}
               last == CHOOSE i \in spaces : \A j \in spaces : j <= i
           IN  /\ Scalars(preview) <= PreviewRunes
               /\ Scalars(text) <= PreviewRunes =>
                     /\ preview = TrimRightSpace(text)
                     /\ procs[s].end = ""
               /\ Scalars(text) > PreviewRunes =>
                     /\ procs[s].end = " **. . .**"
                     /\ preview = TrimRightSpace(IF spaces = {} THEN first
                                                 ELSE SubSeq(first, 1, last - 1))

\* C31: the preview taken from a referenced message is cut from the text
\* that follows its leading marker lines: with o the end of the longest run
\* of leading lines that all begin with "-#", the preview is a prefix of the
\* content from o on, it does not begin with the marker, and a content made
\* only of marker lines gives the empty preview.
C31_MarkerLinesSkipped ==
    \A s \in DOMAIN procs :
        (procs[s].kind = "preview" /\ procs[s].pc = "done") =>
           LET content == MessageOf(procs[s].cur).body
               preview == procs[s].out
               marker == <<"-", "#">>
               LineStarts == {0} \cup {i \in 1..(Len(content) - 1) : content[i] = "\n"}
               Marked(j) == HasPrefix(From(content, j), marker)
               Ends == {o \in LineStarts \cup {Len(content)} :
                          /\ \A j \in LineStarts : j < o => Marked(j)
                          /\ o < Len(content) => ~Marked(o)}
           IN  /\ Cardinality(Ends) = 1
               /\ \A o \in Ends :
                     /\ Len(preview) <= Len(content) - o
                     /\ preview = SubSeq(From(content, o), 1, Len(preview))
                     /\ o = Len(content) => preview = <<>>
               /\ ~HasPrefix(preview, marker)

\* The preview of a text that begins with the two lines of a header block
\* has been taken: it is the text after them.
C31_Witness ==
    \E s \in DOMAIN procs :
        /\ procs[s].kind = "preview" /\ procs[s].pc = "done"
        /\ LET content == MessageOf(procs[s].cur).body
           IN  /\ Len(content) = 11
               /\ SubSeq(content, 1, 10) = <<"-", "#", " ", "a", "\n", "-", "#", " ", "a", "\n">>
        /\ procs[s].out = <<"a">>

\* C33: when a display name is on record with two user ids, the second
\* recorded after the first, the author lookup for that name gives the id
\* recorded last.
C33_MostRecentAuthor ==
    \A s \in DOMAIN procs :
        (/\ procs[s].kind = "mention" /\ procs[s].pc = "done"
         /\ {<<"alice", 7>>, <<"alice", 8>>} \subseteq authors)
            => procs[s].out = <<8>>

\* C32: in an iteration of the create loop for a reply, the header is
\* written whole or not at all, and the text is relayed either way: the copy
\* sent into the target has the message's text; it has no header when no
\* representative of the referenced message is on record for the target,
\* when GetMessage failed, or when no author id is on record for the
\* referenced message's name; and it has the header of a recorded
\* representative when all three lookups succeeded.
C32_HeaderAllOrNothing ==
    [][\A s \in DOMAIN procs :
         LET p == procs[s]
             t == p.targets[p.i]
             related == LoadDirelatedMessageID(messages, t, p.ev.ref)
             known == /\ Exists(p.ev.ref)
                      /\ LoadAuthorID(authors, MessageOf(p.ev.ref).name) # {}
         IN  (/\ p.pc = "create_loop"
              /\ procs'[s] # p
              /\ p.ev.ref # 0
              /\ p.ev.body # ""
              /\ \E f \in {"none", "getmsg"} : OnGuildMessageCreateTarget(s, f)) =>
                /\ procs'[s].out[p.i] = "sent"
                /\ \E r \in platform' \ platform :
                      /\ platform' = platform \cup {r}
                      /\ r.ch = t /\ r.body = p.ev.body
                      /\ r.hdr \in {0} \cup related
                      /\ (related = {} \/ ~known) => r.hdr = 0
                      /\ (OnGuildMessageCreateTarget(s, "getmsg")
                            /\ ~OnGuildMessageCreateTarget(s, "none")) => r.hdr = 0
                      /\ (related # {} /\ known /\ OnGuildMessageCreateTarget(s, "none"))
                            => r.hdr \in related /\ r.hdr # 0]_vars

\* A reply to a relayed message whose author's id is not on record has been
\* relayed: its copy has the text and no header.
C32_Witness ==
    \E s \in DOMAIN procs :
        /\ procs[s].kind = "create" /\ procs[s].pc = "create_commit"
        /\ procs[s].ev.ref # 0
        /\ procs[s].out = <<"sent">>
        /\ authors = {}
        /\ LoadDirelatedMessageID(messages, procs[s].targets[1], procs[s].ev.ref) # {}
        /\ \E r \in Copies : r.id = nextId - 1 /\ r.hdr = 0 /\ r.body = procs[s].ev.body

\* C34: in every state of the links table the commands can produce, the
\* channels LoadRelatedChannels returns for a channel a never include a, and
\* they include b exactly when the channels returned for b include a.
C34_FanOutSymmetric ==
    \A a, b \in Links.ch :
        \A f \in LoadRelatedChannels(links, a), g \in LoadRelatedChannels(links, b) :
            /\ \A i \in DOMAIN f : f[i] # a
            /\ (\E i \in DOMAIN f : f[i] = b) <=> (\E i \in DOMAIN g : g[i] = a)

\* A link command has put channel 2 into a second group: channel 2 relays to
\* channels 1 and 3 and both relay to it, while 1 and 3 do not relay to each
\* other.
C34_Witness ==
    /\ \E s \in DOMAIN procs : procs[s].kind = "link" /\ procs[s].end = "success"
    /\ \A f \in LoadRelatedChannels(links, 2) : {f[i] : i \in DOMAIN f} = {1, 3}
    /\ \A f \in LoadRelatedChannels(links, 1) : {f[i] : i \in DOMAIN f} = {2}
    /\ \A f \in LoadRelatedChannels(links, 3) : {f[i] : i \in DOMAIN f} = {2}

\* C35: the committed correlation rows hold at most one copy message for a
\* source message and a target channel.
C35_OneCopyPerSourceAndTarget ==
    \A r1, r2 \in messages :
        (r1.oc = r2.oc /\ r1.om = r2.om /\ r1.hc = r2.hc) => r1.hm = r2.hm

\* C36: a delete handler running for a relayed copy (a message recorded as
\* the copy of a row and as the source of none) that was not in the
\* self-deletion set deletes nothing and changes no store: every one of its
\* steps leaves the platform's messages, the three tables and the
\* self-deletion set unchanged, and every target of its loop ends without a
\* recorded copy.
C36_CopyDeleteDoesNotCascade ==
    [][\A s \in DOMAIN procs :
         LET p == procs[s]
             q == procs'[s]
         IN  (/\ q # p
              /\ q.kind = "delete"
              /\ q.end # "self_deleted"
              /\ \E r \in messages : r.hm = q.ev.id
              /\ ~\E r \in messages : r.om = q.ev.id) =>
                /\ platform' = platform
                /\ messages' = messages /\ authors' = authors /\ links' = links
                /\ recentDelCache' = recentDelCache
                /\ p.pc = "delete_loop" => q.out[p.i] = "no_copy"]_vars

\* A user has deleted the copy in channel 2 of a message relayed into
\* channels 2 and 3; the delete handler has gone through both of its targets
\* and the source and the other copy are still there.
C36_Witness ==
    \E s \in Deletes :
        /\ procs[s].pc = "done"
        /\ procs[s].out = <<"no_copy", "no_copy">>
        /\ \E r1, r2 \in messages :
              /\ r1.hm = procs[s].ev.id /\ r2.om = r1.om /\ r2.hm # r1.hm
              /\ ~Exists(r1.hm) /\ Exists(r1.om) /\ Exists(r2.hm)

\* C37: with channels only ever linked and every call succeeding, a delete
\* handler of a source message reaches every copy whose row was committed
\* before it looked: its targets cover the channel of every committed row of
\* the message, an iteration that finds committed rows for its target leaves
\* none of their copies on the platform, and an iteration that finds none
\* (the create handler has not committed yet) deletes nothing.
C37_DeleteAfterCommit ==
    [][\A s \in DOMAIN procs :
         LET p == procs[s]
             q == procs'[s]
             rows == {r \in messages : r.om = q.ev.id}
         IN  (q # p /\ q.kind = "delete" /\ ~q.ev.bot /\ q.end # "self_deleted") =>
                /\ p.pc = "idle" =>
                      /\ \A r \in rows : \E i \in DOMAIN q.targets : q.targets[i] = r.hc
                      /\ platform' = platform
                /\ p.pc = "delete_loop" =>
                      LET related == LoadRelatedMessageID(messages, p.targets[p.i], p.ev.id)
                      IN  /\ \A id \in related : ~\E m \in platform' : m.id = id
                          /\ related = {} => platform' = platform]_vars

\* C38: the update and delete handlers work on the fan-out of the links table
\* as it is when the event is handled: the targets of their loop are the
\* channels that share a group with the source channel, and a step of the
\* loop edits or deletes only a relayed copy in the target of that step, so
\* the copy in a channel unlinked before the event is left as it is.
C38_FanOutAtEventTime ==
    [][\A s \in DOMAIN procs :
         LET p == procs[s]
             q == procs'[s]
         IN  /\ (p.pc = "idle" /\ q.pc \in {"update_loop", "delete_loop"}) =>
                   {q.targets[i] : i \in DOMAIN q.targets}
                      = {d \in Events.ch : SharesGroup(links, q.ev.ch, d)}
             /\ (q # p /\ p.pc \in {"update_loop", "delete_loop"}) =>
                   /\ \A i \in DOMAIN p.targets : SharesGroup(links, p.ev.ch, p.targets[i])
                   /\ \A m \in platform :
                         m \notin platform' => m.bot /\ m.ch = p.targets[p.i]]_vars

\* Channel 2 was unlinked after a message was relayed into it; the message
\* was edited and the update handler has returned: the copy in channel 2
\* still has the old text.
C38_Witness ==
    \E s \in DOMAIN procs :
        /\ procs[s].kind = "update" /\ procs[s].pc = "done"
        /\ procs[s].end = "returned"
        /\ procs[s].ev.body = "yo"
        /\ \E r \in messages :
              /\ r.om = procs[s].ev.id
              /\ Exists(r.hm) /\ MessageOf(r.hm).body = "hi"
              /\ ~SharesGroup(links, procs[s].ev.ch, r.hc)

\* C39: each store has one kind of writer. A step that changes the link
\* table is the step of a /link, /unlink or /unlink_all command; a step that
\* changes the message table or the author table is a step of a create
\* handler; a step that changes the self-deletion set is a step of a delete
\* handler; and every step of an update handler and of a /list command
\* leaves the three tables and the self-deletion set as they were.
C39_OneWriterPerStore ==
    [][LET Stepped(kinds) ==
             \E s \in DOMAIN procs :
                 /\ procs'[s] # procs[s]
                 /\ procs'[s].kind \in kinds \/ procs[s].kind \in kinds
       IN  /\ links' # links => Stepped({"link", "unlink", "unlink_all"})
           /\ (messages' # messages \/ authors' # authors) => Stepped({"create"})
           /\ recentDelCache' # recentDelCache => Stepped({"delete"})
           /\ Stepped({"update", "list"}) =>
                 /\ links' = links /\ messages' = messages /\ authors' = authors
                 /\ recentDelCache' = recentDelCache]_vars

\* Every writer and both readers have run: the channel is linked, a message
\* has a committed copy and a recorded author, a copy's id is in the
\* self-deletion set, an update handler has edited a copy and /list has
\* replied with the rows it read.
C39_Witness ==
    /\ links # {} /\ messages # {} /\ authors # {} /\ recentDelCache # {}
    /\ \E r \in messages, m \in platform :
          m.id = r.hm /\ m.body \in Events.edits
    /\ \E s \in DOMAIN procs :
          /\ procs[s].kind = "list" /\ procs[s].pc = "done"
          /\ procs[s].end = "success" /\ procs[s].cur > 0

====
